---- MODULE Spec2Model ----
(***************************************************************************)
(* A model of the event bus (EventBus, built on an RxJS 7 Subject) and of  *)
(* the workflow protocol layer (WorkflowAPI) that runs on top of it.       *)
(*                                                                         *)
(* The bus is single-threaded and synchronous: one call of the public API  *)
(* runs every listener it reaches, and every call those listeners make,    *)
(* before it returns.  Each public call is therefore one action, and its   *)
(* effect is computed by operators over a record of the whole program      *)
(* state (send, deliver, invoke, execute, ...), which call each other the  *)
(* way the code does.                                                      *)
(***************************************************************************)
EXTENDS Naturals, Sequences, FiniteSets, TLC

(***************************************************************************)
(* Bounds of the model.                                                    *)
(***************************************************************************)
\* send calls the application makes in a behaviour (not those of execute or
\* of a listener)
MaxPublish == 2
\* WorkflowAPI.execute calls in a behaviour, nested ones included
MaxExec == 2
\* subscribe calls the application makes in a behaviour (not those of execute)
MaxSubscribe == 2
\* unsubscribe calls of the application, in a behaviour, for an id that is
\* not subscribed (the others are bounded by the subscribe calls)
MaxIgnored == 1
\* request calls in a behaviour
MaxRequest == 1
\* next and complete calls on one reply channel by a listener that kept it
MaxReply == 3

(***************************************************************************)
(* Characters and topics.  A topic or a topic pattern is a sequence of     *)
(* characters.                                                             *)
(***************************************************************************)
Upper == <<"A","B","C","D","E","F","G","H","I","J","K","L","M",
           "N","O","P","Q","R","S","T","U","V","W","X","Y","Z">>
Lower == <<"a","b","c","d","e","f","g","h","i","j","k","l","m",
           "n","o","p","q","r","s","t","u","v","w","x","y","z">>

Range(f) == {f[i] : i \in DOMAIN f}

\* no case folding: the expression without the 'i' flag
keepCase(c) == c

\* the case folding of the regular expression's 'i' flag
toLower(c) ==
  IF c \in Range(Upper)
    THEN Lower[CHOOSE i \in DOMAIN Upper : Upper[i] = c]
    ELSE c

\* the pattern with '*' left as it is, every character standing for itself
compileAtomLiteral(c) == [kind |-> "lit", ch |-> c]

\* topic.replace(/\*/g, '.*') read as a regular expression: a '*' of the
\* pattern becomes the atom ".*", a '.' of the pattern is the atom "any
\* character", every other character stands for itself.
compileAtom(c) ==
  IF c = "*" THEN [kind |-> "anyStar", ch |-> "."]
  ELSE IF c = "." THEN [kind |-> "any", ch |-> "."]
  ELSE [kind |-> "lit", ch |-> c]

compile(pattern) == [i \in DOMAIN pattern |-> compileAtom(pattern[i])]

RECURSIVE matchHere(_, _, _, _)
matchHere(re, i, topic, j) ==
  IF i > Len(re) THEN TRUE
  ELSE IF re[i].kind = "anyStar"
    THEN \E k \in j..(Len(topic) + 1) : matchHere(re, i + 1, topic, k)
  ELSE IF j > Len(topic) THEN FALSE
  ELSE IF re[i].kind = "any" THEN matchHere(re, i + 1, topic, j + 1)
  ELSE toLower(re[i].ch) = toLower(topic[j]) /\ matchHere(re, i + 1, topic, j + 1)

\* regex.test(topic): the expression is not anchored
regexTest(re, topic) ==
  \E start \in 1..(Len(topic) + 1) : matchHere(re, 1, topic, start)

\* the filter with the regular expression used for every pattern
matchesTopicByRegex(pattern, topic) == regexTest(compile(pattern), topic)

\* the filter predicate a subscription installs
matchesTopic(pattern, topic) ==
  IF "*" \in Range(pattern)
    THEN regexTest(compile(pattern), topic)
    ELSE topic = pattern

\* the workflow topics; a workflow name is one character
WFPrefix == <<"W", "F", ".">>
INIT == <<"I", "N", "I", "T">>
SUBMIT == <<"S", "U", "B", "M", "I", "T">>
STATECHANGE == <<"S", "T", "A", "T", "E", ".", "C", "H", "A", "N", "G", "E">>
wfTopic(workflowName, suffix) == WFPrefix \o workflowName \o <<".">> \o suffix

(***************************************************************************)
(* Values.  Event data is a record of one shape: the fields a STATE.CHANGE *)
(* carries (value, and payload for event.data), and the fields INIT and    *)
(* SUBMIT carry (header, body).  A field the data does not have is         *)
(* Undefined.                                                              *)
(***************************************************************************)
Undefined == "undefined"
NullId == <<"null", 0>>

NoHeader == [registrationId |-> NullId, workflow |-> Undefined, eventType |-> Undefined]
\* replySub is the reply channel request adds to the data, 0 when there is none
NoData == [value |-> Undefined, payload |-> Undefined, header |-> NoHeader, body |-> Undefined,
           replySub |-> 0]

\* { value, event: { data: payload } }
stateChangeData(value, payload) == [NoData EXCEPT !.value = value, !.payload = payload]

\* JavaScript truthiness of a payload: undefined and 0 are falsy
Falsy == {Undefined, "0"}
truthy(v) == v \notin Falsy

(***************************************************************************)
(* The program state.                                                      *)
(*   subscriptions  EventBus.subscriptions, a Map in insertion order: a    *)
(*                  sequence of [id, sub], sub the index of the subscriber *)
(*   observers      Subject.observers: subscriber indices in subscribe     *)
(*                  order                                                  *)
(*   subscribers    every subscriber object created so far: its id, topic  *)
(*                  pattern, listener, and whether it is closed            *)
(*   eventHistory, maxHistorySize   EventBus fields                        *)
(*   replySubjects  the AsyncSubject of every request call so far: the     *)
(*                  last value it was given, whether it has one, whether   *)
(*                  it is stopped (completed), and whether the requester   *)
(*                  is among its observers                                 *)
(*   apis           the WorkflowAPI instances: workflowName, subscriptionId*)
(*   executions     the execute calls so far: the values each call closes  *)
(*                  over (registration id, state sets, callbacks, params)  *)
(* and, recorded for the properties only:                                  *)
(*   calls          per execution, the callback invocations in order       *)
(*   sent           every send call in order: the event, and the ids that  *)
(*                  were subscribed when send was called                   *)
(*   invocations    per subscriber, how often its listener was invoked     *)
(*   subscribeCalls every application subscribe call, and how many events  *)
(*                  had been sent when it was made                         *)
(*   publishes      the number of application send calls                   *)
(*   cancelled      the subscription ids held by an instance when cancel   *)
(*                  was called on it                                       *)
(*   trace          what happened on the bus, in order:                    *)
(*                    [kind "send", seq]       send was called for event   *)
(*                                             number seq                  *)
(*                    [kind "invoke", sub, id, seq, topic, data]           *)
(*                                             the listener of subscriber  *)
(*                                             sub was called with these   *)
(*                                             arguments                   *)
(*                    [kind "sendEnd", seq]    that send call returned     *)
(*                    [kind "subscribe", sub, id]    subscriber sub joined *)
(*                    [kind "unsubscribe", sub, id]  subscriber sub left   *)
(*   ignored        the application's unsubscribe calls that found no      *)
(*                  subscription, in call order: the id, and the length of *)
(*                  the trace at the call                                  *)
(*   options        the options the EventBus was constructed with          *)
(*   queried        the last getHistory call: its arguments and its result *)
(*   handles        per request, what its requester and its repliers saw:  *)
(*                  the values and the completion the requester received   *)
(*                  from the handle, the next and complete calls made on   *)
(*                  the reply channel in order, and whether a listener     *)
(*                  kept the channel to reply later                        *)
(***************************************************************************)
VARIABLES subscriptions, observers, subscribers, eventHistory, maxHistorySize,
          apis, executions, calls, sent, invocations, subscribeCalls,
          publishes, cancelled, trace, ignored, replySubjects, options,
          queried, handles, isStopped, hook

vars == <<subscriptions, observers, subscribers, eventHistory, maxHistorySize,
          apis, executions, calls, sent, invocations, subscribeCalls,
          publishes, cancelled, trace, ignored, replySubjects, options,
          queried, handles, isStopped, hook>>

\* the state as one record; overflow marks a call that exceeds a bound,
\* thrown an exception on its way up the call stack, and heap holds, for the
\* events sent in the call, the data object as it is now (the publisher's
\* object, which send passes on without copying it)
State ==
  [subscriptions |-> subscriptions, observers |-> observers,
   subscribers |-> subscribers, eventHistory |-> eventHistory,
   maxHistorySize |-> maxHistorySize, apis |-> apis,
   executions |-> executions, calls |-> calls, sent |-> sent,
   invocations |-> invocations, subscribeCalls |-> subscribeCalls,
   publishes |-> publishes, cancelled |-> cancelled,
   trace |-> trace, ignored |-> ignored,
   replySubjects |-> replySubjects, options |-> options,
   queried |-> queried, handles |-> handles, isStopped |-> isStopped,
   hook |-> hook,
   overflow |-> FALSE, thrown |-> FALSE, heap |-> <<>>]

\* the call returned: its result is the next state
Commit(r) ==
  /\ ~r.overflow
  /\ subscriptions' = r.subscriptions
  /\ observers' = r.observers
  /\ subscribers' = r.subscribers
  /\ eventHistory' = r.eventHistory
  /\ maxHistorySize' = r.maxHistorySize
  /\ apis' = r.apis
  /\ executions' = r.executions
  /\ calls' = r.calls
  /\ sent' = r.sent
  /\ invocations' = r.invocations
  /\ subscribeCalls' = r.subscribeCalls
  /\ publishes' = r.publishes
  /\ cancelled' = r.cancelled
  /\ trace' = r.trace
  /\ ignored' = r.ignored
  /\ replySubjects' = r.replySubjects
  /\ options' = r.options
  /\ queried' = r.queried
  /\ handles' = r.handles
  /\ isStopped' = r.isStopped
  /\ hook' = r.hook

(***************************************************************************)
(* EventBus                                                                *)
(***************************************************************************)
\* Array.from(this.subscriptions.keys())
getActiveSubscriptions(s) == [i \in DOMAIN s.subscriptions |-> s.subscriptions[i].id]

\* this.subscriptions.has(subscriptionId)
hasSubscription(s, subscriptionId) ==
  \E i \in DOMAIN s.subscriptions : s.subscriptions[i].id = subscriptionId

\* this.subscriptions.get(subscriptionId), 0 when there is none
getSubscription(s, subscriptionId) ==
  IF hasSubscription(s, subscriptionId)
    THEN s.subscriptions[CHOOSE i \in DOMAIN s.subscriptions :
                            s.subscriptions[i].id = subscriptionId].sub
    ELSE 0

\* the subscribers a value given to the Subject is handed to: its observers
\* that are not closed
listening(s) == SelectSeq(s.observers, LAMBDA o : ~s.subscribers[o].closed)

\* push, then one pop when the length exceeds the limit: the newest goes
addToHistoryDropsNewest(s, event) ==
  LET pushed == Append(s.eventHistory, event)
  IN [s EXCEPT !.eventHistory =
        IF Len(pushed) > s.maxHistorySize THEN s.eventHistory ELSE pushed]

\* push, then one shift when the length exceeds the limit
addToHistory(s, event) ==
  LET pushed == Append(s.eventHistory, event)
  IN [s EXCEPT !.eventHistory =
        IF Len(pushed) > s.maxHistorySize THEN Tail(pushed) ELSE pushed]

\* getHistory(topic?): args is the argument list, <<>> or <<topic>>.  The
\* filter is applied when the topic is truthy (given, and not the empty
\* string); otherwise the result is a copy of the whole history
getHistory(s, args) ==
  IF args # <<>> /\ args[1] # <<>>
    THEN SelectSeq(s.eventHistory, LAMBDA event : event.topic = args[1])
    ELSE s.eventHistory

\* subscribe without the check for an id already in the map: the new
\* subscriber takes over the map entry, the old one stays an observer
subscribeOverwrites(s, subscriptionId, topic, listener, closure, customData) ==
  IF s.overflow THEN s
  ELSE LET sub == Len(s.subscribers) + 1
           entry == [id |-> subscriptionId, sub |-> sub]
       IN [s EXCEPT
             !.subscribers = Append(@, [id |-> subscriptionId, topic |-> topic,
                                        listener |-> listener, closure |-> closure,
                                        customData |-> customData, closed |-> FALSE]),
             !.invocations = Append(@, 0),
             !.observers = Append(@, sub),
             !.trace = Append(@, [kind |-> "subscribe", sub |-> sub,
                                  id |-> subscriptionId]),
             !.subscriptions =
                IF hasSubscription(s, subscriptionId)
                  THEN [i \in DOMAIN s.subscriptions |->
                          IF s.subscriptions[i].id = subscriptionId
                            THEN entry ELSE s.subscriptions[i]]
                  ELSE Append(s.subscriptions, entry)]

\* subscribe that hands the new listener the events of the history that
\* match its pattern, as a replaying subject would
subscribeReplays(s, subscriptionId, topic, listener, closure, customData) ==
  IF s.overflow THEN s
  ELSE IF hasSubscription(s, subscriptionId) THEN s
  ELSE LET sub == Len(s.subscribers) + 1
           missed == SelectSeq(s.eventHistory, LAMBDA e : matchesTopic(topic, e.topic))
       IN [s EXCEPT
             !.subscribers = Append(@, [id |-> subscriptionId, topic |-> topic,
                                        listener |-> listener, closure |-> closure,
                                        customData |-> customData, closed |-> FALSE]),
             !.invocations = Append(@, Len(missed)),
             !.observers = Append(@, sub),
             !.trace = Append(@, [kind |-> "subscribe", sub |-> sub,
                                  id |-> subscriptionId])
                         \o [i \in DOMAIN missed |->
                               [kind |-> "invoke", sub |-> sub, id |-> subscriptionId,
                                closure |-> closure, customData |-> customData,
                                seq |-> missed[i].seq, topic |-> missed[i].topic,
                                data |-> missed[i].data]],
             !.subscriptions = Append(@, [id |-> subscriptionId, sub |-> sub])]

\* subscribe: an id already in the map is skipped with a warning; otherwise a
\* new subscriber joins the Subject's observers and the map.  A Subject that
\* is stopped completes the new subscriber at once: it is closed and no
\* observer, and the map holds it all the same
subscribe(s, subscriptionId, topic, listener, closure, customData) ==
  IF s.overflow THEN s
  ELSE IF hasSubscription(s, subscriptionId) THEN s
  ELSE LET sub == Len(s.subscribers) + 1
       IN [s EXCEPT
             !.subscribers = Append(@, [id |-> subscriptionId, topic |-> topic,
                                        listener |-> listener, closure |-> closure,
                                        customData |-> customData,
                                        closed |-> s.isStopped]),
             !.invocations = Append(@, 0),
             !.observers = IF s.isStopped THEN @ ELSE Append(@, sub),
             !.trace = Append(@, [kind |-> "subscribe", sub |-> sub,
                                  id |-> subscriptionId]),
             !.subscriptions = Append(@, [id |-> subscriptionId, sub |-> sub])]

\* unsubscribe that deletes the map entry and leaves the subscriber open,
\* an observer of the Subject
unsubscribeKeepsObserver(s, subscriptionId) ==
  IF s.overflow THEN s
  ELSE LET sub == getSubscription(s, subscriptionId)
       IN IF sub = 0 THEN s
          ELSE [s EXCEPT
                  !.trace = Append(@, [kind |-> "unsubscribe", sub |-> sub,
                                       id |-> subscriptionId]),
                  !.subscriptions = SelectSeq(@, LAMBDA e : e.id # subscriptionId)]

\* unsubscribe that, for an id not in the map, takes the newest subscription
unsubscribeLoose(s, subscriptionId) ==
  IF s.overflow \/ s.subscriptions = <<>> THEN s
  ELSE LET found == IF hasSubscription(s, subscriptionId) THEN subscriptionId
                    ELSE s.subscriptions[Len(s.subscriptions)].id
           sub == getSubscription(s, found)
       IN [s EXCEPT
             !.subscribers[sub].closed = TRUE,
             !.observers = SelectSeq(@, LAMBDA o : o # sub),
             !.trace = Append(@, [kind |-> "unsubscribe", sub |-> sub, id |-> found]),
             !.subscriptions = SelectSeq(@, LAMBDA e : e.id # found)]

\* unsubscribe that closes the subscriber and leaves the map entry
unsubscribeKeepsEntry(s, subscriptionId) ==
  IF s.overflow THEN s
  ELSE LET sub == getSubscription(s, subscriptionId)
       IN IF sub = 0 \/ s.subscribers[sub].closed THEN s
          ELSE [s EXCEPT
                  !.subscribers[sub].closed = TRUE,
                  !.observers = SelectSeq(@, LAMBDA o : o # sub),
                  !.trace = Append(@, [kind |-> "unsubscribe", sub |-> sub,
                                       id |-> subscriptionId])]

\* unsubscribe: closes the subscriber, takes it out of the observers and
\* deletes the map entry; nothing when the id is not in the map
unsubscribe(s, subscriptionId) ==
  IF s.overflow THEN s
  ELSE LET sub == getSubscription(s, subscriptionId)
       IN IF sub = 0 THEN s
          ELSE [s EXCEPT
                  !.subscribers[sub].closed = TRUE,
                  !.observers = SelectSeq(@, LAMBDA o : o # sub),
                  !.trace = Append(@, [kind |-> "unsubscribe", sub |-> sub,
                                       id |-> subscriptionId]),
                  !.subscriptions = SelectSeq(@, LAMBDA e : e.id # subscriptionId)]

\* unsubscribeAll that clears the map and leaves the subscribers open
unsubscribeAllKeepsObservers(s) ==
  IF s.overflow THEN s
  ELSE [s EXCEPT
          !.trace = @ \o [i \in DOMAIN s.subscriptions |->
                            [kind |-> "unsubscribe", sub |-> s.subscriptions[i].sub,
                             id |-> s.subscriptions[i].id]],
          !.subscriptions = <<>>]

\* unsubscribeAll: every subscription of the map is closed, the map cleared
unsubscribeAll(s) ==
  IF s.overflow THEN s
  ELSE LET held == {s.subscriptions[i].sub : i \in DOMAIN s.subscriptions}
       IN [s EXCEPT
             !.subscribers = [i \in DOMAIN s.subscribers |->
                 IF i \in held THEN [s.subscribers[i] EXCEPT !.closed = TRUE]
                 ELSE s.subscribers[i]],
             !.observers = SelectSeq(@, LAMBDA o : o \notin held),
             !.trace = @ \o [i \in DOMAIN s.subscriptions |->
                               [kind |-> "unsubscribe", sub |-> s.subscriptions[i].sub,
                                id |-> s.subscriptions[i].id]],
             !.subscriptions = <<>>]

\* this.eventHistory.length = 0
clearHistory(s) == [s EXCEPT !.eventHistory = <<>>]

\* eventSubject.complete(): unless the Subject is stopped, it is stopped and
\* its observers are completed and dropped
complete(s) ==
  IF s.isStopped THEN s
  ELSE [s EXCEPT
          !.isStopped = TRUE,
          !.subscribers = [i \in DOMAIN s.subscribers |->
              IF i \in Range(s.observers) THEN [s.subscribers[i] EXCEPT !.closed = TRUE]
              ELSE s.subscribers[i]],
          !.observers = <<>>]

\* destroy that does not complete the Subject
destroyKeepsSubject(s) ==
  IF s.overflow THEN s
  ELSE LET called == [s EXCEPT !.trace = Append(@, [kind |-> "destroy"])]
       IN clearHistory(unsubscribeAll(called))

\* destroy: unsubscribeAll(), eventSubject.complete(), clearHistory()
destroy(s) ==
  IF s.overflow THEN s
  ELSE LET called == [s EXCEPT !.trace = Append(@, [kind |-> "destroy"])]
       IN clearHistory(complete(unsubscribeAll(called)))

(***************************************************************************)
(* Listeners and callbacks.  A listener is [kind, exec, script]:           *)
(*   kind "wf"   the STATE.CHANGE listener execute installs for            *)
(*               execution exec                                            *)
(*   kind "app"  an application listener, behaving as its script says:     *)
(*     "noop"    returns                                                   *)
(*     "throw"   throws                                                    *)
(*     "engine"  a workflow engine answering in the same call stack: on a  *)
(*               SUBMIT topic it sends STATE.CHANGE success for the        *)
(*               workflow named in the header                              *)
(*     "unsubscribe" unsubscribes the id OtherId and then, on topic A.B,   *)
(*                   sends an event on topic A.C                           *)
(*     "subscribe"   subscribes the id OtherId on pattern A.* with a       *)
(*                   listener that returns and then, on topic A.B, sends   *)
(*                   an event on topic A.C                                 *)
(*     "mutate"  assigns to the payload field of the data it was handed    *)
(*     "getHistory"  calls getHistory() and notes the result in the trace  *)
(*                   as [kind "getHistory", sub, seq, result]              *)
(*     "reply"   when the data has a reply channel, gives it the value r1  *)
(*               and completes it, in the same call stack                  *)
(*     "keep"    when the data has a reply channel, keeps it to reply      *)
(*               later, outside the call stack                             *)
(* A workflow callback (onSuccess, onError, onProgress) is a script:       *)
(*   "absent"  the callback was not given                                  *)
(*   "noop"    returns                                                     *)
(*   "throw"   throws                                                      *)
(*   "reexec"  calls execute again on the same WorkflowAPI instance        *)
(*   "cancel"  calls cancel on the same WorkflowAPI instance               *)
(***************************************************************************)
\* the topics and patterns of the application's subscriptions
TopicAB == <<"A", ".", "B">>
TopicAC == <<"A", ".", "C">>
PatternAStar == <<"A", ".", "*">>
\* the id a listener script subscribes or unsubscribes
OtherId == <<"u", 2>>

wfListener(e) == [kind |-> "wf", exec |-> e, script |-> "wf"]
\* the listener an execute call of the useWorkflow hook registers
hookListener(e) == [kind |-> "hook", exec |-> e, script |-> "hook"]
appListener(script) == [kind |-> "app", exec |-> 0, script |-> script]

PlainCallbacks == [onSuccess |-> "noop", onError |-> "noop", onProgress |-> "noop"]
NoConfig == [successStates |-> [given |-> FALSE, states |-> {}],
             errorStates |-> [given |-> FALSE, states |-> {}]]

\* the argument a callback is invoked with
payloadArg(eventData) == [form |-> "payload", arg |-> eventData.payload, ev |-> NoData]
rawArg(eventData) == [form |-> "raw", arg |-> Undefined, ev |-> eventData]
progressArg(state, eventData) == [form |-> "progress", arg |-> state, ev |-> eventData]

\* eventData.event?.data || eventData
errorArg(eventData) ==
  IF truthy(eventData.payload) THEN payloadArg(eventData) ELSE rawArg(eventData)

\* topic.endsWith('.SUBMIT')
endsWithSubmit(topic) ==
  LET suffix == <<".">> \o SUBMIT
  IN /\ Len(topic) >= Len(suffix)
     /\ SubSeq(topic, Len(topic) - Len(suffix) + 1, Len(topic)) = suffix

\* cleanup that forgets the id without unsubscribing it
cleanupForgets(s, api) ==
  IF s.overflow THEN s ELSE [s EXCEPT !.apis[api].subscriptionId = NullId]

\* WorkflowAPI.cleanup: unsubscribes the id the instance holds, if any
cleanup(s, api) ==
  IF s.overflow THEN s
  ELSE IF s.apis[api].subscriptionId # NullId
    THEN [unsubscribe(s, s.apis[api].subscriptionId)
            EXCEPT !.apis[api].subscriptionId = NullId]
    ELSE s

\* WorkflowAPI.cancel
cancel(s, api) ==
  cleanup([s EXCEPT !.cancelled = @ \cup ({s.apis[api].subscriptionId} \ {NullId})], api)

\* the success set with the configuration ignored
successStatesDefault(config) == {"success"}

\* the destructuring defaults of execute
successStatesOf(config) ==
  IF config.successStates.given THEN config.successStates.states ELSE {"success"}
errorStatesOf(config) ==
  IF config.errorStates.given THEN config.errorStates.states ELSE {"error", "failure"}

\* `${workflowName}.${Date.now()}.${random}`: the n-th id generated; two
\* generated ids are taken to differ
registrationIdOf(workflowName, n) == <<workflowName, n>>

initData(registrationId, workflowName) ==
  [NoData EXCEPT !.header = [registrationId |-> registrationId,
                             workflow |-> workflowName, eventType |-> "INIT"]]
submitData(registrationId, workflowName, params) ==
  [NoData EXCEPT !.header = [registrationId |-> registrationId,
                             workflow |-> workflowName, eventType |-> "SUBMIT"],
                 !.body = params]

(***************************************************************************)
(* The reply channel of a request: an AsyncSubject.  It keeps the last     *)
(* value given to it and hands it, followed by the completion, to its      *)
(* observers when it is completed, and to an observer that subscribes      *)
(* after that; once completed it is stopped.                               *)
(***************************************************************************)
\* new AsyncSubject()
NewReplySubject == [value |-> Undefined, hasValue |-> FALSE, isStopped |-> FALSE,
                    observed |-> FALSE]
\* what is recorded of a request; late says that the channel was completed
\* when the requester subscribed to the handle, sync is the number of
\* attempts made on the channel when request returned
NewHandle == [subscribed |-> FALSE, late |-> FALSE, received |-> <<>>, completed |-> FALSE,
              attempts |-> <<>>, kept |-> FALSE, sync |-> 0]

\* next that does not test whether the subject is stopped
replyNextAlways(s, r, v) ==
  [s EXCEPT !.handles[r].attempts = Append(@, [kind |-> "next", value |-> v]),
            !.replySubjects[r].value = v,
            !.replySubjects[r].hasValue = TRUE]

\* replySub.next(v): the value is kept unless the subject is stopped
replyNext(s, r, v) ==
  [s EXCEPT !.handles[r].attempts = Append(@, [kind |-> "next", value |-> v]),
            !.replySubjects[r] =
               IF @.isStopped THEN @ ELSE [@ EXCEPT !.value = v, !.hasValue = TRUE]]

\* complete that hands its observers the completion without the value
replyCompleteDropsValue(s, r) ==
  LET subject == s.replySubjects[r]
      called == [s EXCEPT !.handles[r].attempts =
                   Append(@, [kind |-> "complete", value |-> Undefined])]
  IN IF subject.isStopped THEN called
     ELSE [called EXCEPT
             !.replySubjects[r].isStopped = TRUE,
             !.replySubjects[r].observed = FALSE,
             !.handles[r].completed = @ \/ subject.observed]

\* replySub.complete(): unless the subject is stopped, it is stopped, and its
\* observers get the value, when it has one, and the completion
replyComplete(s, r) ==
  LET subject == s.replySubjects[r]
      called == [s EXCEPT !.handles[r].attempts =
                   Append(@, [kind |-> "complete", value |-> Undefined])]
  IN IF subject.isStopped THEN called
     ELSE [called EXCEPT
             !.replySubjects[r].isStopped = TRUE,
             !.replySubjects[r].observed = FALSE,
             !.handles[r].received =
                IF subject.observed /\ subject.hasValue
                  THEN Append(@, subject.value) ELSE @,
             !.handles[r].completed = @ \/ subject.observed]

\* subscribing to a stopped subject yields the completion without the value
subscribeHandleNoReplay(s, r) ==
  LET subject == s.replySubjects[r]
  IN IF subject.isStopped
       THEN [s EXCEPT !.handles[r].subscribed = TRUE,
                      !.handles[r].late = TRUE,
                      !.handles[r].completed = TRUE]
       ELSE [s EXCEPT !.handles[r].subscribed = TRUE,
                      !.replySubjects[r].observed = TRUE]

\* handle.subscribe(handler) by the requester: of a stopped subject it gets
\* the value, when there is one, and the completion at once; otherwise it
\* joins the observers
subscribeHandle(s, r) ==
  LET subject == s.replySubjects[r]
  IN IF subject.isStopped
       THEN [s EXCEPT !.handles[r].subscribed = TRUE,
                      !.handles[r].late = TRUE,
                      !.handles[r].received =
                         IF subject.hasValue THEN Append(@, subject.value) ELSE @,
                      !.handles[r].completed = TRUE]
       ELSE [s EXCEPT !.handles[r].subscribed = TRUE,
                      !.replySubjects[r].observed = TRUE]

\* data.payload = ... by a listener: the data object of event seq is the one
\* the history entry of that event holds and the one the listeners that
\* follow are handed
assign(s, seq, data) ==
  [s EXCEPT !.heap[seq] = data,
            !.eventHistory = [i \in DOMAIN s.eventHistory |->
               IF s.eventHistory[i].seq = seq
                 THEN [s.eventHistory[i] EXCEPT !.data = data]
                 ELSE s.eventHistory[i]]]

RECURSIVE send(_, _, _), deliver(_, _, _, _), invoke(_, _, _),
          execute(_, _, _, _, _), callback(_, _, _, _, _),
          stateChangeListener(_, _, _), applicationListener(_, _, _),
          hookStateChangeListener(_, _, _)

\* send that emits the event before it stores it in the history
sendStoresLast(s, topic, data) ==
  IF s.overflow THEN s
  ELSE LET event == [topic |-> topic, data |-> data, seq |-> Len(s.sent) + 1]
           entry == [event |-> event, active |-> getActiveSubscriptions(s),
                     listening |-> listening(s)]
           called == [s EXCEPT !.sent = Append(@, entry),
                               !.heap = (event.seq :> data) @@ @,
                               !.trace = Append(@, [kind |-> "send", seq |-> event.seq])]
           emitted == deliver(called, called.observers, 1, event)
           stored == addToHistory(emitted, event)
       IN IF stored.overflow \/ stored.thrown THEN stored
          ELSE [stored EXCEPT !.trace = Append(@, [kind |-> "sendEnd", seq |-> event.seq])]

\* send: build the event, store it in the history, emit it; it returns when
\* Subject.next returns, and is left by what Subject.next throws
send(s, topic, data) ==
  IF s.overflow THEN s
  ELSE LET event == [topic |-> topic, data |-> data, seq |-> Len(s.sent) + 1]
           entry == [event |-> event, active |-> getActiveSubscriptions(s),
                     listening |-> listening(s)]
           called == [s EXCEPT !.sent = Append(@, entry),
                               !.heap = (event.seq :> data) @@ @,
                               !.trace = Append(@, [kind |-> "send", seq |-> event.seq])]
           stored == addToHistory(called, event)
           emitted == IF stored.isStopped THEN stored
                      ELSE deliver(stored, stored.observers, 1, event)
       IN IF emitted.overflow \/ emitted.thrown THEN emitted
          ELSE [emitted EXCEPT !.trace = Append(@, [kind |-> "sendEnd", seq |-> event.seq])]

\* the walk with no catch around the listener: a throw ends it
deliverAborts(s, snapshot, i, event) ==
  IF s.overflow \/ i > Len(snapshot) THEN s
  ELSE LET sub == s.subscribers[snapshot[i]]
           r == IF sub.closed \/ ~matchesTopic(sub.topic, event.topic)
                  THEN [st |-> s, threw |-> FALSE]
                  ELSE invoke(s, snapshot[i], event)
       IN IF r.threw THEN r.st ELSE deliver(r.st, snapshot, i + 1, event)

\* the walk with no catch around the listener, whose exception leaves
\* Subject.next after the other observers were served
deliverPropagates(s, snapshot, i, event) ==
  IF s.overflow \/ i > Len(snapshot) THEN s
  ELSE LET sub == s.subscribers[snapshot[i]]
           r == IF sub.closed \/ ~matchesTopic(sub.topic, event.topic)
                  THEN [st |-> s, threw |-> FALSE]
                  ELSE invoke(s, snapshot[i], event)
           walked == deliver(r.st, snapshot, i + 1, event)
       IN IF r.threw THEN [walked EXCEPT !.thrown = TRUE] ELSE walked

\* the walk from the newest observer of the snapshot to the oldest
deliverReversed(s, snapshot, i, event) ==
  IF s.overflow \/ i > Len(snapshot) THEN s
  ELSE LET o == snapshot[Len(snapshot) + 1 - i]
           sub == s.subscribers[o]
           after == IF sub.closed \/ ~matchesTopic(sub.topic, event.topic)
                      THEN s
                      ELSE invoke(s, o, event).st
       IN deliver(after, snapshot, i + 1, event)

\* the walk over the observers as they are at each step, not over a snapshot
deliverLive(s, snapshot, i, event) ==
  IF s.overflow \/ i > Len(s.observers) THEN s
  ELSE LET sub == s.subscribers[s.observers[i]]
           after == IF sub.closed \/ ~matchesTopic(sub.topic, event.topic)
                      THEN s
                      ELSE invoke(s, s.observers[i], event).st
       IN deliver(after, snapshot, i + 1, event)

\* the walk in which a subscriber whose listener threw is closed and leaves
\* the observers, as a subscriber that was sent an error does
deliverClosesThrower(s, snapshot, i, event) ==
  IF s.overflow \/ i > Len(snapshot) THEN s
  ELSE LET sub == s.subscribers[snapshot[i]]
           r == IF sub.closed \/ ~matchesTopic(sub.topic, event.topic)
                  THEN [st |-> s, threw |-> FALSE]
                  ELSE invoke(s, snapshot[i], event)
           after == IF r.threw
                      THEN [r.st EXCEPT !.subscribers[snapshot[i]].closed = TRUE,
                                        !.observers = SelectSeq(@, LAMBDA o : o # snapshot[i])]
                      ELSE r.st
       IN deliver(after, snapshot, i + 1, event)

\* Subject.next: the observers as they are when next is called are walked in
\* order; a subscriber closed in the meantime ignores the value, the others
\* filter it by topic and hand it to their listener.  The subscriber catches
\* what the listener throws and reports it later, outside the call stack:
\* what the listener did before it threw stays done, and the walk goes on
deliver(s, snapshot, i, event) ==
  IF s.overflow \/ i > Len(snapshot) THEN s
  ELSE LET sub == s.subscribers[snapshot[i]]
           after == IF sub.closed \/ ~matchesTopic(sub.topic, event.topic)
                      THEN s
                      ELSE invoke(s, snapshot[i], event).st
       IN deliver(after, snapshot, i + 1, event)

\* the listener is handed the pattern of its subscription as the topic
invokeWithPattern(s, sub, event) ==
  LET listener == s.subscribers[sub].listener
      data == s.heap[event.seq]
      counted == [s EXCEPT !.invocations[sub] = @ + 1,
                           !.trace = Append(@, [kind |-> "invoke", sub |-> sub,
                                                id |-> s.subscribers[sub].id,
                                                seq |-> event.seq,
                                                topic |-> s.subscribers[sub].topic,
                                                data |-> data,
                                                closure |-> s.subscribers[sub].closure,
                                                customData |-> s.subscribers[sub].customData])]
  IN IF listener.kind = "wf"
       THEN stateChangeListener(counted, listener.exec, data)
     ELSE IF listener.kind = "hook"
       THEN hookStateChangeListener(counted, listener.exec, data)
       ELSE applicationListener(counted, listener.script, [event EXCEPT !.data = data])

\* listener(subscriptionId, event.topic, event.data, ...): the state the
\* listener leaves and whether it threw
invoke(s, sub, event) ==
  LET listener == s.subscribers[sub].listener
      data == s.heap[event.seq]
      counted == [s EXCEPT !.invocations[sub] = @ + 1,
                           !.trace = Append(@, [kind |-> "invoke", sub |-> sub,
                                                id |-> s.subscribers[sub].id,
                                                seq |-> event.seq,
                                                topic |-> event.topic,
                                                data |-> data,
                                                closure |-> s.subscribers[sub].closure,
                                                customData |-> s.subscribers[sub].customData])]
  IN IF listener.kind = "wf"
       THEN stateChangeListener(counted, listener.exec, data)
     ELSE IF listener.kind = "hook"
       THEN hookStateChangeListener(counted, listener.exec, data)
       ELSE applicationListener(counted, listener.script, [event EXCEPT !.data = data])

applicationListener(s, script, event) ==
  IF script = "throw" THEN [st |-> s, threw |-> TRUE]
  ELSE IF script = "engine" /\ endsWithSubmit(event.topic)
    THEN [st |-> send(s, wfTopic(<<event.data.header.workflow>>, STATECHANGE),
                      stateChangeData("success", "p1")),
          threw |-> FALSE]
  ELSE IF script \in {"unsubscribe", "subscribe"}
    THEN LET acted == IF script = "unsubscribe" THEN unsubscribe(s, OtherId)
                      ELSE subscribe(s, OtherId, PatternAStar, appListener("noop"),
                                     Undefined, Undefined)
         IN [st |-> IF event.topic = TopicAB
                      THEN send(acted, TopicAC, stateChangeData("d2", "p1"))
                      ELSE acted,
             threw |-> FALSE]
  ELSE IF script = "getHistory"
    THEN [st |-> [s EXCEPT !.trace = Append(@, [kind |-> "getHistory", seq |-> event.seq,
                                                result |-> getHistory(s, <<>>)])],
          threw |-> FALSE]
  ELSE IF script = "mutate"
    THEN [st |-> assign(s, event.seq, [event.data EXCEPT !.payload = "changed"]),
          threw |-> FALSE]
  ELSE IF script = "reply" /\ event.data.replySub # 0
    THEN [st |-> replyComplete(replyNext(s, event.data.replySub, "r1"),
                               event.data.replySub),
          threw |-> FALSE]
  ELSE IF script = "keep" /\ event.data.replySub # 0
    THEN [st |-> [s EXCEPT !.handles[event.data.replySub].kept = TRUE],
          threw |-> FALSE]
  ELSE [st |-> s, threw |-> FALSE]

\* a workflow callback of execution e is invoked (when it was given)
callback(s, e, kind, script, arg) ==
  IF s.overflow \/ script = "absent" THEN [st |-> s, threw |-> FALSE]
  ELSE LET called == [s EXCEPT !.calls[e] = Append(@, [kind |-> kind, arg |-> arg])]
           api == s.executions[e].api
       IN IF script = "throw" THEN [st |-> called, threw |-> TRUE]
          ELSE IF script = "reexec"
            THEN [st |-> execute(called, api, "x2", PlainCallbacks, NoConfig),
                  threw |-> FALSE]
          ELSE IF script = "cancel"
            THEN [st |-> cancel(called, api), threw |-> FALSE]
          ELSE [st |-> called, threw |-> FALSE]

\* the listener with cleanup after every branch, the progress branch too
stateChangeListenerCleansAlways(s, e, eventData) ==
  LET x == s.executions[e]
      state == eventData.value
      r == IF state \in x.successStates
             THEN callback(s, e, "success", x.onSuccess, payloadArg(eventData))
           ELSE IF state \in x.errorStates
             THEN callback(s, e, "error", x.onError, errorArg(eventData))
           ELSE callback(s, e, "progress", x.onProgress, progressArg(state, eventData))
  IN IF r.threw THEN r ELSE [st |-> cleanup(r.st, x.api), threw |-> FALSE]

\* the listener that handles only the state changes whose header names its
\* own registration id
stateChangeListenerCorrelated(s, e, eventData) ==
  LET x == s.executions[e]
      state == eventData.value
  IN IF eventData.header.registrationId # x.registrationId
       THEN [st |-> s, threw |-> FALSE]
     ELSE IF state \in x.successStates
       THEN LET r == callback(s, e, "success", x.onSuccess, payloadArg(eventData))
            IN IF r.threw THEN r ELSE [st |-> cleanup(r.st, x.api), threw |-> FALSE]
     ELSE IF state \in x.errorStates
       THEN LET r == callback(s, e, "error", x.onError, errorArg(eventData))
            IN IF r.threw THEN r ELSE [st |-> cleanup(r.st, x.api), threw |-> FALSE]
     ELSE callback(s, e, "progress", x.onProgress, progressArg(state, eventData))

\* the listener that tests the error set before the success set
stateChangeListenerErrorFirst(s, e, eventData) ==
  LET x == s.executions[e]
      state == eventData.value
  IN IF state \in x.errorStates
       THEN LET r == callback(s, e, "error", x.onError, errorArg(eventData))
            IN IF r.threw THEN r ELSE [st |-> cleanup(r.st, x.api), threw |-> FALSE]
     ELSE IF state \in x.successStates
       THEN LET r == callback(s, e, "success", x.onSuccess, payloadArg(eventData))
            IN IF r.threw THEN r ELSE [st |-> cleanup(r.st, x.api), threw |-> FALSE]
     ELSE callback(s, e, "progress", x.onProgress, progressArg(state, eventData))

\* the listener execute subscribes: classify eventData.value, invoke the
\* callback, and on a terminal state clean up after the callback returned
stateChangeListener(s, e, eventData) ==
  LET x == s.executions[e]
      state == eventData.value
  IN IF state \in x.successStates
       THEN LET r == callback(s, e, "success", x.onSuccess, payloadArg(eventData))
            IN IF r.threw THEN r ELSE [st |-> cleanup(r.st, x.api), threw |-> FALSE]
     ELSE IF state \in x.errorStates
       THEN LET r == callback(s, e, "error", x.onError, errorArg(eventData))
            IN IF r.threw THEN r ELSE [st |-> cleanup(r.st, x.api), threw |-> FALSE]
     ELSE callback(s, e, "progress", x.onProgress, progressArg(state, eventData))

\* the listener an execute call of the hook subscribes: classify
\* eventData.value and invoke the callback
hookStateChangeListener(s, e, eventData) ==
  LET x == s.executions[e]
      state == eventData.value
  IN IF state \in x.successStates
       THEN callback(s, e, "success", x.onSuccess, payloadArg(eventData))
     ELSE IF state \in x.errorStates
       THEN callback(s, e, "error", x.onError, errorArg(eventData))
     ELSE callback(s, e, "progress", x.onProgress, progressArg(state, eventData))

\* the values one execute call closes over
executionOf(s, api, params, callbacks, config) ==
  [api |-> api,
   registrationId |-> registrationIdOf(s.apis[api].workflowName, Len(s.executions) + 1),
   successStates |-> successStatesOf(config),
   errorStates |-> errorStatesOf(config),
   onSuccess |-> callbacks.onSuccess,
   onError |-> callbacks.onError,
   onProgress |-> callbacks.onProgress,
   params |-> params,
   config |-> config]

\* execute with the subscription made after the two events are sent
executeSubscribeLast(s, api, params, callbacks, config) ==
  IF s.overflow THEN s
  ELSE IF Len(s.executions) >= MaxExec THEN [s EXCEPT !.overflow = TRUE]
  ELSE LET e == Len(s.executions) + 1
           x == executionOf(s, api, params, callbacks, config)
           workflowName == s.apis[api].workflowName
           started == [s EXCEPT !.executions = Append(@, x),
                                !.calls = Append(@, <<>>),
                                !.apis[api].subscriptionId = x.registrationId]
           initSent == send(started, wfTopic(<<workflowName>>, INIT),
                            initData(x.registrationId, workflowName))
           submitSent == send(initSent, wfTopic(<<workflowName>>, SUBMIT),
                              submitData(x.registrationId, workflowName, params))
       IN subscribe(submitSent, x.registrationId,
                    wfTopic(<<workflowName>>, STATECHANGE),
                    wfListener(e), Undefined, Undefined)

\* WorkflowAPI.execute
execute(s, api, params, callbacks, config) ==
  IF s.overflow THEN s
  ELSE IF Len(s.executions) >= MaxExec THEN [s EXCEPT !.overflow = TRUE]
  ELSE LET e == Len(s.executions) + 1
           x == executionOf(s, api, params, callbacks, config)
           workflowName == s.apis[api].workflowName
           registrationId == x.registrationId
           started == [s EXCEPT !.executions = Append(@, x),
                                !.calls = Append(@, <<>>),
                                !.apis[api].subscriptionId = registrationId]
           subscribed == subscribe(started, registrationId,
                                   wfTopic(<<workflowName>>, STATECHANGE),
                    wfListener(e), Undefined, Undefined)
           initSent == send(subscribed, wfTopic(<<workflowName>>, INIT),
                            initData(registrationId, workflowName))
       IN send(initSent, wfTopic(<<workflowName>>, SUBMIT),
               submitData(registrationId, workflowName, params))

\* the execute function useWorkflow returns: the ref takes the new id, the
\* listener is subscribed, INIT and SUBMIT are sent
hookExecute(s, params, callbacks) ==
  IF s.overflow THEN s
  ELSE IF Len(s.executions) >= MaxExec THEN [s EXCEPT !.overflow = TRUE]
  ELSE LET e == Len(s.executions) + 1
           workflowName == s.hook.workflowName
           registrationId == registrationIdOf(workflowName, e)
           x == [api |-> 0, registrationId |-> registrationId,
                 successStates |-> successStatesOf(s.hook.config),
                 errorStates |-> errorStatesOf(s.hook.config),
                 onSuccess |-> callbacks.onSuccess,
                 onError |-> callbacks.onError,
                 onProgress |-> callbacks.onProgress,
                 params |-> params, config |-> s.hook.config]
           started == [s EXCEPT !.executions = Append(@, x),
                                !.calls = Append(@, <<>>),
                                !.hook.subscriptionIdRef = registrationId]
           subscribed == subscribe(started, registrationId,
                                   wfTopic(<<workflowName>>, STATECHANGE),
                                   hookListener(e), Undefined, Undefined)
           initSent == send(subscribed, wfTopic(<<workflowName>>, INIT),
                            initData(registrationId, workflowName))
       IN send(initSent, wfTopic(<<workflowName>>, SUBMIT),
               submitData(registrationId, workflowName, params))

\* the effect cleanup of useWorkflow, run when the component unmounts
unmount(s) ==
  IF s.overflow THEN s
  ELSE LET left == [s EXCEPT !.hook.mounted = FALSE]
       IN IF s.hook.subscriptionIdRef # NullId
            THEN unsubscribe(left, s.hook.subscriptionIdRef)
            ELSE left

(***************************************************************************)
(* The initial state: a bus constructed with a history limit, and the      *)
(* WorkflowAPI instances constructed on it.                                *)
\* request that completes the reply channel when no listener was given it
requestCompletesUnanswered(s, topic, data) ==
  IF s.overflow THEN s
  ELSE LET r == Len(s.replySubjects) + 1
           made == [s EXCEPT !.replySubjects = Append(@, NewReplySubject),
                             !.handles = Append(@, NewHandle)]
           sentOut == send(made, topic, [data EXCEPT !.replySub = r])
       IN IF sentOut.handles[r].attempts = <<>> /\ ~sentOut.handles[r].kept
            THEN [sentOut EXCEPT !.replySubjects[r].isStopped = TRUE]
            ELSE sentOut

\* request: a new AsyncSubject is put into the data as replySub, the event is
\* sent, and the subject is returned as the handle (its index, here)
request(s, topic, data) ==
  IF s.overflow THEN s
  ELSE LET r == Len(s.replySubjects) + 1
           made == [s EXCEPT !.replySubjects = Append(@, NewReplySubject),
                             !.handles = Append(@, NewHandle)]
           sentOut == send(made, topic, [data EXCEPT !.replySub = r])
       IN [sentOut EXCEPT !.handles[r].sync = Len(sentOut.handles[r].attempts)]

(***************************************************************************)
\* the workflow each WorkflowAPI instance was constructed for
ApiWorkflow == <<"W", "W", "V">>
Apis == DOMAIN ApiWorkflow

DefaultMaxHistorySize == 100
\* the destroy calls of a run
MaxDestroy == 1
\* the history limit given to the constructor
HistoryLimit == 3
\* the constructor's options: maxHistorySize given or not
NoOptions == [given |-> FALSE, maxHistorySize |-> 0]
historyOption(n) == [given |-> TRUE, maxHistorySize |-> n]

\* options?.maxHistorySize || 100: the default when none is given, and when
\* the one given is falsy
maxHistorySizeOf(opts) ==
  IF opts.given /\ opts.maxHistorySize # 0
    THEN opts.maxHistorySize ELSE DefaultMaxHistorySize

\* getHistory has not been called
NoQuery == [args |-> <<>>, result |-> <<>>]
\* useWorkflow(eventBus, 'W') in a mounted component
NewHook == [workflowName |-> "W", config |-> NoConfig, subscriptionIdRef |-> NullId,
            mounted |-> TRUE]

\* new EventBus(opts), and the WorkflowAPI instances
Construct(opts) ==
  /\ subscriptions = <<>>
  /\ observers = <<>>
  /\ subscribers = <<>>
  /\ eventHistory = <<>>
  /\ maxHistorySize = maxHistorySizeOf(opts)
  /\ apis = [a \in Apis |-> [workflowName |-> ApiWorkflow[a], subscriptionId |-> NullId]]
  /\ executions = <<>>
  /\ calls = <<>>
  /\ sent = <<>>
  /\ invocations = <<>>
  /\ subscribeCalls = <<>>
  /\ publishes = 0
  /\ cancelled = {}
  /\ trace = <<>>
  /\ ignored = <<>>
  /\ replySubjects = <<>>
  /\ options = opts
  /\ queried = NoQuery
  /\ handles = <<>>
  /\ isStopped = FALSE
  /\ hook = NewHook

Init == Construct(historyOption(HistoryLimit))

\* the events published in the history runs
HistoryPublishes == HistoryLimit + 5

(***************************************************************************)
(* The inputs of the calls.                                                *)
(***************************************************************************)
Payloads == {Undefined, "0", "p1"}

\* STATE.CHANGE data a workflow engine publishes
StateChanges ==
  {stateChangeData(v, p) : v \in {"success", "error"}, p \in Payloads}
    \cup {stateChangeData(v, "p1") : v \in {"failure", "DONE"}}

ThrowingCallbacks == [onSuccess |-> "throw", onError |-> "throw", onProgress |-> "throw"]
ReexecCallbacks == [onSuccess |-> "reexec", onError |-> "reexec", onProgress |-> "noop"]
CancelCallbacks == [onSuccess |-> "noop", onError |-> "absent", onProgress |-> "cancel"]

DoneConfig == [NoConfig EXCEPT !.successStates = [given |-> TRUE, states |-> {"DONE"}]]
Configs == {NoConfig, DoneConfig}

UserIds == {<<"u", 1>>, <<"u", 2>>}

StateChangeW == wfTopic(<<"W">>, STATECHANGE)
StateChangeV == wfTopic(<<"V">>, STATECHANGE)

(***************************************************************************)
(* The calls of the application, one action each.                          *)
(***************************************************************************)
Execute(api, params, callbacks, config) ==
  /\ Len(executions) < MaxExec
  /\ Commit(execute(State, api, params, callbacks, config))

\* cancel on an instance that holds a subscription id
Cancel(api) ==
  /\ apis[api].subscriptionId # NullId
  /\ Commit(cancel(State, api))

\* cancel on an instance that holds none (never executed, cleaned up, or
\* cancelled before)
CancelIdle(api) ==
  /\ apis[api].subscriptionId = NullId
  /\ Commit(cancel(State, api))

Send(topic, data) ==
  /\ publishes < MaxPublish
  /\ Commit(send([State EXCEPT !.publishes = @ + 1], topic, data))

\* subscribe(id, topic, listener, closure, customData)
SubscribeWith(subscriptionId, topic, listener, closure, customData) ==
  /\ Len(subscribeCalls) < MaxSubscribe
  /\ Commit([subscribe(State, subscriptionId, topic, listener, closure, customData)
               EXCEPT !.subscribeCalls = Append(@,
                 [id |-> subscriptionId, topic |-> topic, listener |-> listener,
                  closure |-> closure, customData |-> customData,
                  at |-> Len(sent)])])

\* subscribe(id, topic, listener): closure and customData are undefined
Subscribe(subscriptionId, topic, listener) ==
  /\ Len(subscribeCalls) < MaxSubscribe
  /\ SubscribeWith(subscriptionId, topic, listener, Undefined, Undefined)

Unsubscribe(subscriptionId) ==
  /\ hasSubscription(State, subscriptionId) \/ Len(ignored) < MaxIgnored
  /\ Commit([unsubscribe(State, subscriptionId) EXCEPT !.ignored =
               IF hasSubscription(State, subscriptionId)
                 THEN @ ELSE Append(@, [id |-> subscriptionId, at |-> Len(trace)])])

\* unsubscribe of an id that is subscribed
UnsubscribeActive(subscriptionId) ==
  /\ hasSubscription(State, subscriptionId)
  /\ Unsubscribe(subscriptionId)

UnsubscribeAll ==
  /\ subscriptions # <<>>
  /\ Commit(unsubscribeAll(State))

\* a call of the execute function of the hook by its mounted component
HookExecute(params, callbacks) ==
  /\ hook.mounted
  /\ Len(executions) < MaxExec
  /\ Commit(hookExecute(State, params, callbacks))

\* the component unmounts
Unmount ==
  /\ hook.mounted
  /\ Commit(unmount(State))

\* destroy()
Destroy ==
  /\ Cardinality({i \in DOMAIN trace : trace[i].kind = "destroy"}) < MaxDestroy
  /\ Commit(destroy(State))

\* a send call of an application that publishes five events more than the
\* history limit it gave
SendMany(topic, data) ==
  /\ publishes < HistoryPublishes
  /\ Commit(send([State EXCEPT !.publishes = @ + 1], topic, data))

Request(topic, data) ==
  /\ Len(replySubjects) < MaxRequest
  /\ Commit(request(State, topic, data))

\* the requester subscribes to the handle of request r
SubscribeHandle(r) ==
  /\ r \in DOMAIN replySubjects
  /\ ~handles[r].subscribed
  /\ Commit(subscribeHandle(State, r))

\* a listener that kept the reply channel of request r gives it a value: r2,
\* and r3 when the channel was given a value before
ReplyNext(r) ==
  /\ r \in DOMAIN replySubjects
  /\ handles[r].kept
  /\ Len(handles[r].attempts) < MaxReply
  /\ Commit(replyNext(State, r,
               IF \E i \in DOMAIN handles[r].attempts : handles[r].attempts[i].kind = "next"
                 THEN "r3" ELSE "r2"))

\* a listener that kept the reply channel of request r completes it
ReplyComplete(r) ==
  /\ r \in DOMAIN replySubjects
  /\ handles[r].kept
  /\ Len(handles[r].attempts) < MaxReply
  /\ Commit(replyComplete(State, r))

\* getHistory() or getHistory(topic)
GetHistory(args) ==
  /\ Len(args) <= 1
  /\ Commit([State EXCEPT !.queried = [args |-> args, result |-> getHistory(State, args)]])

(***************************************************************************)
(* Spec: the life cycle of workflow executions.  The application executes  *)
(* workflows on two WorkflowAPI instances of workflow W, with callbacks    *)
(* that return and, on the first instance, throw or execute again; it      *)
(* cancels; and the workflow                                               *)
(* engine publishes STATE.CHANGE events (a success, an error, and DONE,    *)
(* which is a progress state here).                                        *)
(***************************************************************************)
Next ==
  \/ \E callbacks \in {PlainCallbacks, ThrowingCallbacks, ReexecCallbacks} :
       Execute(1, "x1", callbacks, NoConfig)
  \/ Execute(2, "x1", PlainCallbacks, NoConfig)
  \/ \E api \in {1, 2} : Cancel(api)
  \/ \E api \in {1, 2} : CancelIdle(api)
  \/ \E value \in {"success", "error", "DONE"} :
       Send(StateChangeW, stateChangeData(value, "p1"))

Spec == Init /\ [][Next]_vars

(***************************************************************************)
(* SpecClassify: one instance, every STATE.CHANGE value and payload, the   *)
(* default and a configured success set; the progress callback cancels and *)
(* no error callback is given in the second profile.                       *)
(***************************************************************************)
NextClassify ==
  \/ \E callbacks \in {PlainCallbacks, CancelCallbacks}, config \in Configs :
       Execute(1, "x1", callbacks, config)
  \/ \E data \in StateChanges : Send(StateChangeW, data)

SpecClassify == Init /\ [][NextClassify]_vars

(***************************************************************************)
(* SpecProtocol: the events execute publishes.  Instances of workflows W   *)
(* and V, two parameter values (with the second, the callbacks execute     *)
(* again), and a workflow engine subscribed to WF.W.* that answers a       *)
(* SUBMIT with a success in the same call stack.                           *)
(***************************************************************************)
NextProtocol ==
  \/ \E api \in {1, 3}, params \in {"x1", "x2"} :
       Execute(api, params, IF params = "x2" THEN ReexecCallbacks ELSE PlainCallbacks,
               NoConfig)
  \/ Subscribe(<<"u", 1>>, WFPrefix \o <<"W", ".", "*">>, appListener("engine"))
  \/ Send(StateChangeW, stateChangeData("success", "p1"))

SpecProtocol == Init /\ [][NextProtocol]_vars

(***************************************************************************)
(* SpecBus: the bus alone.  Subscriptions under two ids, on an exact topic *)
(* with a listener that returns and on a wildcard pattern with a listener  *)
(* that throws.                                                            *)
(***************************************************************************)
NextBus ==
  \/ \E id \in UserIds : Subscribe(id, TopicAB, appListener("noop"))
  \/ \E id \in UserIds : Subscribe(id, PatternAStar, appListener("throw"))
  \/ UnsubscribeAll
  \/ \E topic \in {TopicAB, TopicAC}, data \in {stateChangeData("d1", "p1")} :
       Send(topic, data)

SpecBus == Init /\ [][NextBus]_vars

(***************************************************************************)
(* SpecMatch: the topic filter.  Subscriptions on an exact topic and on a  *)
(* wildcard pattern, each in upper and in lower case, with listeners that  *)
(* return, and events on topics that are, contain or resemble A.B.         *)
(***************************************************************************)
TopicABC == <<"A", ".", "B", ".", "C">>
TopicZB == <<"Z", ".", "B">>
TopicZAB == <<"Z", ".", "A", ".", "B">>
TopicAXB == <<"A", "X", "B">>
TopicLowerAB == <<"a", ".", "b">>
PatternLowerAStar == <<"a", ".", "*">>

MatchPatterns == <<TopicAB, PatternAStar, TopicLowerAB, PatternLowerAStar>>
MatchTopics == {TopicAB, TopicABC, TopicZB, TopicZAB, TopicAXB}

NextMatch ==
  \/ \E k \in DOMAIN MatchPatterns :
       Subscribe(<<"p", k>>, MatchPatterns[k], appListener("noop"))
  \/ \E topic \in MatchTopics : Send(topic, stateChangeData("d1", "p1"))
  \/ Send(TopicAB, stateChangeData("d2", "p2"))

SpecMatch == Init /\ [][NextMatch]_vars

(***************************************************************************)
(* SpecReentrant: listeners that call the bus.  The subscription u1 is on  *)
(* A.* with a listener that, during delivery, unsubscribes u2 or           *)
(* subscribes u2, and then publishes; the application subscribes u2 on A.* *)
(* or on A.C                                                               *)
(* with a listener that returns.  The application publishes on A.B and    *)
(* unsubscribes the ids that are subscribed.                               *)
(***************************************************************************)
NextReentrant ==
  \/ \E script \in {"unsubscribe", "subscribe"} :
       Subscribe(<<"u", 1>>, PatternAStar, appListener(script))
  \/ \E topic \in {PatternAStar, TopicAC} :
       Subscribe(OtherId, topic, appListener("noop"))
  \/ \E id \in UserIds : UnsubscribeActive(id)
  \/ Send(TopicAB, stateChangeData("d1", "p1"))

SpecReentrant == Init /\ [][NextReentrant]_vars

(***************************************************************************)
(* SpecActive: the calls of SpecReentrant and unsubscribeAll.              *)
(***************************************************************************)
NextActive ==
  \/ \E script \in {"unsubscribe", "subscribe"} :
       Subscribe(<<"u", 1>>, PatternAStar, appListener(script))
  \/ \E topic \in {PatternAStar, TopicAC} :
       Subscribe(OtherId, topic, appListener("noop"))
  \/ \E id \in UserIds : UnsubscribeActive(id)
  \/ UnsubscribeAll
  \/ Send(TopicAB, stateChangeData("d1", "p1"))

SpecActive == Init /\ [][NextActive]_vars

(***************************************************************************)
(* SpecDestroy: the teardown of the bus.  Subscriptions on A.B and on A.*  *)
(* with listeners that return, events on A.B, and destroy; subscribe and   *)
(* send are called before and after it.                                    *)
(***************************************************************************)
NextDestroy ==
  \/ \E id \in UserIds, topic \in {TopicAB, PatternAStar} :
       Subscribe(id, topic, appListener("noop"))
  \/ \E payload \in {"p1", "p2"} : Send(TopicAB, stateChangeData("d1", payload))
  \/ Destroy

SpecDestroy == Init /\ [][NextDestroy]_vars

(***************************************************************************)
(* SpecHook: a component that uses useWorkflow for workflow W: it calls    *)
(* execute while it is mounted, state changes of W are published, and it   *)
(* unmounts.                                                               *)
(***************************************************************************)
NextHook ==
  \/ \E params \in {"x1", "x2"} : HookExecute(params, PlainCallbacks)
  \/ \E value \in {"success", "error", "DONE"}, payload \in {"p1", "p2"} :
       Send(StateChangeW, stateChangeData(value, payload))
  \/ Unmount

SpecHook == Init /\ [][NextHook]_vars

(***************************************************************************)
(* SpecOverlap: a success set and an error set that share a value.  One    *)
(* instance, executions configured with successStates ['success', 'error'] *)
(* (error is also in the default error set) or not configured, given all   *)
(* three callbacks or the error callback only, and every state value.      *)
(***************************************************************************)
OverlapConfig ==
  [NoConfig EXCEPT !.successStates = [given |-> TRUE, states |-> {"success", "error"}]]
ErrorOnlyCallbacks == [onSuccess |-> "absent", onError |-> "noop", onProgress |-> "absent"]

NextOverlap ==
  \/ \E callbacks \in {PlainCallbacks, ErrorOnlyCallbacks},
        config \in {OverlapConfig, NoConfig} :
       Execute(1, "x1", callbacks, config)
  \/ \E value \in {"success", "error", "failure", "DONE"} :
       Send(StateChangeW, stateChangeData(value, "p1"))

SpecOverlap == Init /\ [][NextOverlap]_vars

(***************************************************************************)
(* SpecShared: two instances of workflow W on one bus.  The first is given *)
(* callbacks that return, throw or execute again, the second callbacks     *)
(* that return; success and progress state changes of W are published.     *)
(***************************************************************************)
NextShared ==
  \/ \E callbacks \in {PlainCallbacks, ThrowingCallbacks, ReexecCallbacks} :
       Execute(1, "x1", callbacks, NoConfig)
  \/ Execute(2, "x1", PlainCallbacks, NoConfig)
  \/ \E value \in {"success", "DONE"} :
       Send(StateChangeW, stateChangeData(value, "p1"))

SpecShared == Init /\ [][NextShared]_vars

(***************************************************************************)
(* SpecUnsubscribe: unsubscribe calls for ids that are subscribed, that    *)
(* were subscribed, and that never were.                                   *)
(***************************************************************************)
UnknownId == <<"u", 3>>

NextUnsubscribe ==
  \/ \E id \in UserIds : Subscribe(id, TopicAB, appListener("noop"))
  \/ \E id \in {<<"u", 1>>, UnknownId} : Unsubscribe(id)
  \/ Send(TopicAB, stateChangeData("d1", "p1"))

SpecUnsubscribe == Init /\ [][NextUnsubscribe]_vars

(***************************************************************************)
(* SpecHistory: the event history.  The bus is constructed with no history *)
(* limit, or with a limit from 0 to HistoryLimit; the application          *)
(* publishes on A.B and on a.b, and reads the history: all of it, and      *)
(* filtered by A.B, by a.b, by A.* and by the empty string.                *)
(***************************************************************************)
HistoryOptions == {NoOptions} \cup {historyOption(n) : n \in 0..HistoryLimit}
EmptyTopic == <<>>
QueryTopics == {TopicAB, TopicLowerAB, PatternAStar, EmptyTopic}

InitHistory == \E opts \in HistoryOptions : Construct(opts)

NextHistory ==
  \/ \E topic \in {TopicAB, TopicLowerAB} : SendMany(topic, stateChangeData("d1", "p1"))
  \/ GetHistory(<<>>)
  \/ \E topic \in QueryTopics : GetHistory(<<topic>>)

SpecHistory == InitHistory /\ [][NextHistory]_vars

(***************************************************************************)
(* SpecRequest: request and reply.  One listener on A.B replies in the     *)
(* call stack of the request, as the calculator of the basic-usage example *)
(* does; another keeps the reply channel and gives it values and completes *)
(* it later, in any order.  The application requests on A.B and on A.C,    *)
(* a topic nobody listens to, and subscribes to the handles.               *)
(***************************************************************************)

NextRequest ==
  \/ Subscribe(<<"u", 1>>, TopicAB, appListener("reply"))
  \/ Subscribe(OtherId, TopicAB, appListener("keep"))
  \/ \E topic \in {TopicAB, TopicAC} : Request(topic, stateChangeData("d1", "p1"))
  \/ \E r \in 1..MaxRequest : SubscribeHandle(r)
  \/ \E r \in 1..MaxRequest : ReplyNext(r)
  \/ \E r \in 1..MaxRequest : ReplyComplete(r)

SpecRequest == Init /\ [][NextRequest]_vars

(***************************************************************************)
(* SpecMutate: listeners that write to the data they are handed.           *)
(* Subscriptions under two ids, on A.B and on A.*, with a listener that    *)
(* assigns to data.payload and with one that returns; events on A.B and    *)
(* on A.C with two payloads.                                               *)
(***************************************************************************)
NextMutate ==
  \/ \E id \in UserIds, topic \in {TopicAB, PatternAStar}, script \in {"mutate", "noop"} :
       Subscribe(id, topic, appListener(script))
  \/ \E topic \in {TopicAB, TopicAC}, payload \in {"p1", "p2"} :
       Send(topic, stateChangeData("d1", payload))

SpecMutate == Init /\ [][NextMutate]_vars

(***************************************************************************)
(* SpecListener: what a listener is handed and what it finds.              *)
(* Subscriptions under two ids, on A.B and on A.*, registered with a       *)
(* closure, with customData, with both or with neither, whose listener     *)
(* reads the history or returns; events on A.B and on A.C.                 *)
(***************************************************************************)
\* the registrations: a script with the closure and customData it comes with
Registrations == {<<"getHistory", "c1", Undefined>>, <<"noop", "c2", "k2">>,
                  <<"noop", Undefined, "k1">>}

\* subscribe(id, topic, listener, closure, customData)
SubscribeRegistration(id, topic, reg) ==
  /\ reg \in Registrations
  /\ SubscribeWith(id, topic, appListener(reg[1]), reg[2], reg[3])

NextListener ==
  \/ \E id \in UserIds, topic \in {TopicAB, PatternAStar}, reg \in Registrations :
       SubscribeRegistration(id, topic, reg)
  \/ \E topic \in {TopicAB, TopicAC} :
       Send(topic, stateChangeData("d1", "p1"))

SpecListener == Init /\ [][NextListener]_vars

(***************************************************************************)
(* Properties.                                                             *)
(***************************************************************************)
ActiveIds == {subscriptions[i].id : i \in DOMAIN subscriptions}
Executions == DOMAIN executions
Terminal == {"success", "error"}

\* the subscriber execute created for execution e
subscriberOf(e) ==
  CHOOSE k \in DOMAIN subscribers : subscribers[k].listener = wfListener(e)

\* execution e had a terminal callback invoked, and the callback returned
\* (it did not throw): its listener went on to clean up
HandledTerminal(e) ==
  \E i \in DOMAIN calls[e] :
    \/ calls[e][i].kind = "success" /\ executions[e].onSuccess # "throw"
    \/ calls[e][i].kind = "error" /\ executions[e].onError # "throw"

CountCalls(e, kind) == Cardinality({i \in DOMAIN calls[e] : calls[e][i].kind = kind})

\* C1: every execution owns exactly one subscription while its instance holds
\* its registration id, and once a terminal STATE.CHANGE has been delivered
\* to an execution (its terminal callback was invoked and returned), that
\* execution's own registration id is no longer subscribed.
C1_TerminalRemovesOwnId ==
  \A e \in Executions :
    LET rid == executions[e].registrationId
    IN /\ Cardinality({i \in DOMAIN subscriptions : subscriptions[i].id = rid}) <= 1
       /\ apis[executions[e].api].subscriptionId = rid => rid \in ActiveIds
       /\ HandledTerminal(e) => rid \notin ActiveIds

\* C2: the success callback of an execution (one that returns) is invoked at
\* most once, with the event's inner payload, and once it has been invoked
\* the execution's registration id is no longer subscribed.
C2_SuccessExactlyOnce ==
  \A e \in Executions :
    executions[e].onSuccess # "throw" =>
      /\ CountCalls(e, "success") <= 1
      /\ \A i \in DOMAIN calls[e] :
           calls[e][i].kind = "success" => calls[e][i].arg.form = "payload"
      /\ CountCalls(e, "success") = 1 => executions[e].registrationId \notin ActiveIds

\* C3: once an execution has handled a terminal STATE.CHANGE, no later call
\* invokes any of its callbacks.
C3_TerminalIdempotent ==
  [][\A e \in Executions : HandledTerminal(e) => calls'[e] = calls[e]]_vars

\* the send calls whose data carries registration id rid in its header
SentFor(rid) == SelectSeq(sent, LAMBDA m : m.event.data.header.registrationId = rid)

\* C4: for every execute call, the events sent with its registration id are
\* exactly one INIT followed by one SUBMIT on the workflow's topics, their
\* headers carry the registration id, the workflow name and the event type,
\* SUBMIT carries the caller's params as body, and when INIT was sent the
\* registration id was already subscribed, on the workflow's STATE.CHANGE.
C4_InitThenSubmit ==
  \A e \in Executions :
    LET x == executions[e]
        rid == x.registrationId
        w == ApiWorkflow[x.api]
        mine == SentFor(rid)
    IN /\ Len(mine) = 2
       /\ mine[1].event.topic = <<"W", "F", ".", w, ".">> \o INIT
       /\ mine[1].event.data.header =
            [registrationId |-> rid, workflow |-> w, eventType |-> "INIT"]
       /\ mine[1].event.data.body = Undefined
       /\ mine[2].event.topic = <<"W", "F", ".", w, ".">> \o SUBMIT
       /\ mine[2].event.data.header =
            [registrationId |-> rid, workflow |-> w, eventType |-> "SUBMIT"]
       /\ mine[2].event.data.body = x.params
       /\ rid \in Range(mine[1].active)
       /\ subscribers[subscriberOf(e)].id = rid
       /\ subscribers[subscriberOf(e)].topic = <<"W", "F", ".", w, ".">> \o STATECHANGE

\* two executions, of workflows W and V, the first answered by the engine
\* from inside execute (the application published nothing)
C4_Witness ==
  \E e1, e2 \in Executions :
    /\ ApiWorkflow[executions[e1].api] = "W" /\ calls[e1] # <<>>
    /\ ApiWorkflow[executions[e2].api] = "V" /\ executions[e2].params = "x2"
    /\ publishes = 0

\* C5: cancel on an instance that holds a registration id removes that id
\* from the subscriptions and invokes no callback; an execution whose id was
\* cancelled is never subscribed again and none of its callbacks is invoked
\* by any later call; cancel on an instance that holds no id changes nothing.
C5_CancelSilent ==
  [][/\ \A api \in Apis :
          Cancel(api) => /\ apis[api].subscriptionId \notin ActiveIds'
                         /\ apis'[api].subscriptionId = NullId
                         /\ calls' = calls
     /\ \A api \in Apis : CancelIdle(api) => UNCHANGED vars
     /\ \A e \in Executions :
          executions[e].registrationId \in cancelled =>
            /\ calls'[e] = calls[e]
            /\ executions[e].registrationId \notin ActiveIds']_vars

\* a cancelled execution that was never called back, although a STATE.CHANGE
\* was sent after it was cancelled
C5_Witness ==
  \E e \in Executions :
    LET rid == executions[e].registrationId
    IN /\ rid \in cancelled
       /\ calls[e] = <<>>
       /\ \E i \in DOMAIN sent :
            /\ sent[i].event.topic = StateChangeW
            /\ sent[i].event.data.value \in Terminal
            /\ sent[i].event.seq > SentFor(rid)[2].event.seq
            /\ rid \notin Range(sent[i].active)

(***************************************************************************)
(* One step of the application: what it published, and whom it reached.    *)
(***************************************************************************)
\* the step is a send call of the application
IsPublish == publishes' = publishes + 1
PublishedEvent == sent'[Len(sent) + 1].event
\* the listener of execution e was invoked once in the step
Delivered(e) ==
  invocations'[subscriberOf(e)] = invocations[subscriberOf(e)] + 1

LastCall(e) == calls'[e][Len(calls'[e])]
CallbackFor(e, kind) ==
  IF kind = "success" THEN executions[e].onSuccess
  ELSE IF kind = "error" THEN executions[e].onError
  ELSE executions[e].onProgress

\* C6: a STATE.CHANGE whose value is in neither set of an execution, delivered
\* to its listener, invokes the progress callback with the state value and
\* the event data, and leaves the execution subscribed (unless the progress
\* callback itself cancels); an execution that has seen progress still gets
\* its terminal callback when a terminal STATE.CHANGE is delivered.
C6_ProgressKeepsRunning ==
  [][IsPublish =>
      \A e \in Executions :
        LET x == executions[e]
            d == PublishedEvent.data
            progress == [kind |-> "progress",
                         arg |-> [form |-> "progress", arg |-> d.value, ev |-> d]]
        IN /\ (Delivered(e) /\ d.value \notin (x.successStates \cup x.errorStates)) =>
                /\ calls'[e] = IF x.onProgress = "absent" THEN calls[e]
                               ELSE Append(calls[e], progress)
                /\ x.onProgress # "cancel" =>
                     /\ x.registrationId \in ActiveIds'
                     /\ ~subscribers'[subscriberOf(e)].closed
           /\ (/\ Delivered(e)
               /\ d.value \in (x.successStates \cup x.errorStates)
               /\ \E i \in DOMAIN calls[e] : calls[e][i].kind = "progress"
               /\ CallbackFor(e, IF d.value \in x.successStates
                                   THEN "success" ELSE "error") # "absent") =>
                /\ Len(calls'[e]) = Len(calls[e]) + 1
                /\ LastCall(e).kind \in Terminal]_vars

\* an execution that saw a progress state and then its terminal callback
C6_Witness ==
  \E e \in Executions :
    /\ Len(calls[e]) = 2
    /\ calls[e][1].kind = "progress"
    /\ calls[e][2].kind \in Terminal
    /\ executions[e].registrationId \notin ActiveIds

\* the callback kind the configuration given to execute asks for
ExpectedKind(config, value) ==
  IF config.successStates.given
    THEN (IF value \in config.successStates.states THEN "success"
          ELSE IF value \in {"error", "failure"} THEN "error"
          ELSE "progress")
    ELSE (IF value = "success" THEN "success"
          ELSE IF value \in {"error", "failure"} THEN "error"
          ELSE "progress")

\* C7: a delivered STATE.CHANGE is classified with the configured sets: with
\* successStates ['DONE'], DONE invokes the success callback and cleans up
\* while success is progress; without configuration success is the success
\* state and error and failure are the error states.
C7_ConfiguredSets ==
  [][IsPublish =>
      \A e \in Executions :
        Delivered(e) =>
          LET x == executions[e]
              kind == ExpectedKind(x.config, PublishedEvent.data.value)
          IN /\ IF CallbackFor(e, kind) = "absent"
                  THEN calls'[e] = calls[e]
                  ELSE /\ Len(calls'[e]) = Len(calls[e]) + 1
                       /\ LastCall(e).kind = kind
             /\ kind \in Terminal =>
                  /\ apis'[x.api].subscriptionId = NullId
                  /\ apis[x.api].subscriptionId = x.registrationId =>
                       x.registrationId \notin ActiveIds']_vars

\* an execution configured with successStates ['DONE'] for which success was
\* progress and DONE then the success
C7_Witness ==
  \E e \in Executions :
    /\ executions[e].config = DoneConfig
    /\ Len(calls[e]) = 2
    /\ calls[e][1].kind = "progress" /\ calls[e][1].arg.arg = "success"
    /\ calls[e][2].kind = "success"
    /\ executions[e].registrationId \notin ActiveIds

\* C8: the error callback gets the inner payload whenever the event has one,
\* and the raw event only when it has none.
C8_ErrorPayloadWhenPresent ==
  \A e \in Executions :
    \A i \in DOMAIN calls[e] :
      calls[e][i].kind = "error" =>
        /\ calls[e][i].arg.form \in {"payload", "raw"}
        /\ calls[e][i].arg.form = "raw" => calls[e][i].arg.ev.payload = Undefined
        /\ calls[e][i].arg.form = "payload" => calls[e][i].arg.arg # Undefined

\* the callback kind the sets of execution e give a state value
ClassOf(e, value) ==
  IF value \in executions[e].successStates THEN "success"
  ELSE IF value \in executions[e].errorStates THEN "error"
  ELSE "progress"

\* the position of subscriber k among the observers, 0 when it is not one
PositionOf(k) ==
  IF \E j \in DOMAIN observers : observers[j] = k
    THEN CHOOSE j \in DOMAIN observers : observers[j] = k
    ELSE 0

\* C9: when the callback an execution's listener invokes throws, the send
\* call still walks on: every later observer matching the topic is invoked
\* (or was unsubscribed in the call); the execution stays subscribed, and it
\* is classified again, its callback invoked, by each later STATE.CHANGE.
C9_ThrowKeepsSubscription ==
  [][IsPublish =>
      \A e \in Executions :
        LET x == executions[e]
            kind == ClassOf(e, PublishedEvent.data.value)
            k == subscriberOf(e)
        IN (Delivered(e) /\ CallbackFor(e, kind) = "throw") =>
             /\ Len(calls'[e]) = Len(calls[e]) + 1
             /\ LastCall(e).kind = kind
             /\ x.registrationId \in ActiveIds'
             /\ ~subscribers'[k].closed
             /\ \A j \in DOMAIN observers :
                  (j > PositionOf(k)
                     /\ matchesTopic(subscribers[observers[j]].topic, PublishedEvent.topic)) =>
                    \/ invocations'[observers[j]] = invocations[observers[j]] + 1
                    \/ subscribers'[observers[j]].closed]_vars

\* an execution whose success callback threw twice and that is still
\* subscribed, and a later one that was called back
C9_Witness ==
  \E e, e2 \in Executions :
    /\ e < e2
    /\ executions[e].onSuccess = "throw"
    /\ Len(calls[e]) = 2
    /\ calls[e][1].kind = "success" /\ calls[e][2].kind = "success"
    /\ executions[e].registrationId \in ActiveIds
    /\ calls[e2] # <<>>

Subscribers == DOMAIN subscribers
Events == DOMAIN sent

IsWildcard(k) == "*" \in Range(subscribers[k].topic)

\* the positions in the trace of: subscriber k joining, subscriber k leaving
\* (past the end while it has not left), send being called for event m, and
\* that call returning
SubscribedAt(k) ==
  CHOOSE i \in DOMAIN trace : trace[i].kind = "subscribe" /\ trace[i].sub = k
UnsubscribedAt(k) ==
  IF \E i \in DOMAIN trace : trace[i].kind = "unsubscribe" /\ trace[i].sub = k
    THEN CHOOSE i \in DOMAIN trace : trace[i].kind = "unsubscribe" /\ trace[i].sub = k
    ELSE Len(trace) + 1
SendAt(m) ==
  CHOOSE i \in DOMAIN trace : trace[i].kind = "send" /\ trace[i].seq = m
SendEndAt(m) ==
  CHOOSE i \in DOMAIN trace : trace[i].kind = "sendEnd" /\ trace[i].seq = m

\* the positions at which the listener of subscriber k was invoked for event m
InvokedAt(k, m) ==
  {i \in DOMAIN trace :
     trace[i].kind = "invoke" /\ trace[i].sub = k /\ trace[i].seq = m}

\* subscriber k was subscribed when send was called for event m
InSnapshot(k, m) == SubscribedAt(k) < SendAt(m) /\ SendAt(m) < UnsubscribedAt(k)

\* the invocations the step added to the trace, for subscriber k
NewInvocations(k) ==
  {i \in (Len(trace) + 1)..Len(trace') :
     trace'[i].kind = "invoke" /\ trace'[i].sub = k}

\* C11: a publish on topic T invokes the listener of every subscription on
\* an exact pattern P exactly once when T = P, with the subscription's id,
\* the topic and the data that were published, and not at all when T # P.
C11_ExactMatch ==
  [][IsPublish =>
      \A k \in Subscribers :
        (~IsWildcard(k) /\ ~subscribers[k].closed) =>
          IF PublishedEvent.topic = subscribers[k].topic
            THEN /\ Cardinality(NewInvocations(k)) = 1
                 /\ \A i \in NewInvocations(k) :
                      /\ trace'[i].id = subscribers[k].id
                      /\ trace'[i].topic = PublishedEvent.topic
                      /\ trace'[i].data = PublishedEvent.data
            ELSE NewInvocations(k) = {}]_vars

\* a subscription on A.B that was invoked for a publish on A.B with data d2
\* and not for the publish on A.B.C that followed
C11_Witness ==
  \E k \in Subscribers, m, n \in Events :
    /\ subscribers[k].topic = TopicAB
    /\ InSnapshot(k, m) /\ InSnapshot(k, n) /\ m < n
    /\ sent[m].event.topic = TopicAB /\ sent[m].event.data.value = "d2"
    /\ sent[n].event.topic = TopicABC
    /\ Cardinality(InvokedAt(k, m)) = 1
    /\ InvokedAt(k, n) = {}

\* C12: a subscription on the wildcard pattern A.* is invoked for publishes
\* on A.B and on A.B.C and is not invoked for a publish on Z.B; the '*'
\* absorbs any run of characters, none and further segments included.
StarAbsorbs ==
  \A tail \in {<<>>, <<"B">>, <<".">>, <<"B", ".", "C">>, <<".", ".">>, <<"*">>} :
    matchesTopic(PatternAStar, <<"A", ".">> \o tail)

C12_WildcardMatch ==
  /\ StarAbsorbs
  /\ \A k \in Subscribers, m \in Events :
       (subscribers[k].topic = PatternAStar /\ InSnapshot(k, m)) =>
         /\ sent[m].event.topic \in {TopicAB, TopicABC} =>
              Cardinality(InvokedAt(k, m)) = 1
         /\ sent[m].event.topic = TopicZB => InvokedAt(k, m) = {}

\* a subscription on A.* that was invoked for a publish on A.B.C and not for
\* a publish on Z.B
C12_Witness ==
  \E k \in Subscribers, m, n \in Events :
    /\ subscribers[k].topic = PatternAStar
    /\ InSnapshot(k, m) /\ InSnapshot(k, n)
    /\ sent[m].event.topic = TopicABC /\ sent[n].event.topic = TopicZB
    /\ Cardinality(InvokedAt(k, m)) = 1
    /\ InvokedAt(k, n) = {}

\* the wildcard semantics: the characters of the pattern stand for
\* themselves, whatever their case, a '*' for any run of characters, and
\* the pattern covers the whole topic
RECURSIVE wildcardCovers(_, _, _, _)
wildcardCovers(pattern, i, topic, j) ==
  IF i > Len(pattern) THEN j > Len(topic)
  ELSE IF pattern[i] = "*"
    THEN \E k \in j..(Len(topic) + 1) : wildcardCovers(pattern, i + 1, topic, k)
  ELSE /\ j <= Len(topic)
       /\ toLower(pattern[i]) = toLower(topic[j])
       /\ wildcardCovers(pattern, i + 1, topic, j + 1)

\* C13: the listener of a subscription on a wildcard pattern is invoked only
\* with topics the pattern covers by the wildcard semantics; a subscription
\* on A.* is invoked neither for Z.A.B nor for AXB.
C13_NoPartialMatch ==
  \A i \in DOMAIN trace :
    (trace[i].kind = "invoke" /\ IsWildcard(trace[i].sub)) =>
      wildcardCovers(subscribers[trace[i].sub].topic, 1, trace[i].topic, 1)

\* C14: a subscription on an exact pattern is invoked only for the topic
\* that equals it character by character (a.b is not invoked for A.B), and
\* a subscription on the wildcard pattern a.* is invoked for A.B.
C14_CaseSensitivity ==
  \A k \in Subscribers, m \in Events :
    InSnapshot(k, m) =>
      /\ (~IsWildcard(k) /\ sent[m].event.topic # subscribers[k].topic) =>
           InvokedAt(k, m) = {}
      /\ (subscribers[k].topic = PatternLowerAStar /\ sent[m].event.topic = TopicAB) =>
           Cardinality(InvokedAt(k, m)) = 1

\* subscriptions on a.b and on a.* were both subscribed when A.B was
\* published: the second was invoked, the first was not
C14_Witness ==
  \E k, l \in Subscribers, m \in Events :
    /\ subscribers[k].topic = TopicLowerAB
    /\ subscribers[l].topic = PatternLowerAStar
    /\ InSnapshot(k, m) /\ InSnapshot(l, m)
    /\ sent[m].event.topic = TopicAB
    /\ InvokedAt(k, m) = {}
    /\ Cardinality(InvokedAt(l, m)) = 1

(***************************************************************************)
(* Delivery under calls a listener makes on the bus.                       *)
(***************************************************************************)
Matches(k, m) == matchesTopic(subscribers[k].topic, sent[m].event.topic)

\* the positions at which any listener was invoked for event m
InvocationsOf(m) == {i \in DOMAIN trace : trace[i].kind = "invoke" /\ trace[i].seq = m}

\* subscriber k joined, or left, while send was running for event m
SubscribedDuring(k, m) == SendAt(m) < SubscribedAt(k) /\ SubscribedAt(k) < SendEndAt(m)
UnsubscribedDuring(k, m) == SendAt(m) < UnsubscribedAt(k) /\ UnsubscribedAt(k) < SendEndAt(m)

\* the positions as tables, one entry per subscriber or event
JoinedAt == [k \in Subscribers |-> SubscribedAt(k)]
LeftAt == [k \in Subscribers |-> UnsubscribedAt(k)]
CalledAt == [m \in Events |-> SendAt(m)]
ReturnedAt == [m \in Events |-> SendEndAt(m)]
\* true of every function; TLC, which computes a function expression anew
\* at each application, keeps the table of one it has compared
Computed(f) == f = f

\* the positions at which a listener was invoked
Invocations == {i \in DOMAIN trace : trace[i].kind = "invoke"}

\* C15: for every send call, the listeners are invoked between the call and
\* its return, in the order in which their subscriptions were registered,
\* and every subscription that was subscribed at the call, matches the
\* topic and is still subscribed at the return is invoked exactly once.
C15_RegistrationOrder ==
  LET joined == JoinedAt
      left == LeftAt
      called == CalledAt
      returned == ReturnedAt
      invocation == Invocations
  IN /\ Computed(joined) /\ Computed(left) /\ Computed(called) /\ Computed(returned)
     /\ \A i \in invocation :
          called[trace[i].seq] < i /\ i < returned[trace[i].seq]
     /\ \A i, j \in invocation :
          (i < j /\ trace[i].seq = trace[j].seq) =>
            joined[trace[i].sub] < joined[trace[j].sub]
     /\ \A k \in Subscribers, m \in Events :
          (joined[k] < called[m] /\ returned[m] < left[k] /\ Matches(k, m)) =>
            Cardinality({i \in invocation : trace[i].sub = k /\ trace[i].seq = m}) = 1

\* an event for which a subscription on a wildcard pattern and then one on
\* an exact topic were invoked, the first registered first
C15_Witness ==
  \E m \in Events, i, j \in DOMAIN trace :
    /\ i \in InvocationsOf(m) /\ j \in InvocationsOf(m) /\ i < j
    /\ IsWildcard(trace[i].sub) /\ ~IsWildcard(trace[j].sub)
    /\ SubscribedAt(trace[i].sub) < SubscribedAt(trace[j].sub)

\* C16: every subscription's listener is invoked with the events in the order
\* in which send was called for them, the order of the history.
C16_PublishOrder ==
  \A i, j \in DOMAIN trace :
    (/\ i < j
     /\ trace[i].kind = "invoke" /\ trace[j].kind = "invoke"
     /\ trace[i].sub = trace[j].sub) => trace[i].seq < trace[j].seq

\* C17: a subscription that was subscribed when send was called for an
\* event it matches, and that a listener unsubscribes during the delivery
\* before its turn, is still invoked once for that event; it is invoked for
\* no event sent later.
C17_SnapshotSurvivesUnsubscribe ==
  \A k \in Subscribers, m \in Events :
    /\ (InSnapshot(k, m) /\ Matches(k, m) /\ UnsubscribedDuring(k, m)) =>
         Cardinality(InvokedAt(k, m)) = 1
    /\ UnsubscribedAt(k) < SendAt(m) => InvokedAt(k, m) = {}

\* C18: a subscription a listener creates during the delivery of an event is
\* not invoked for that event, and it is invoked exactly once for every
\* matching event for which send is called after the subscribe call and
\* which finds it subscribed until the send returns.
C18_SubscribeDuringDelivery ==
  LET joined == JoinedAt
      left == LeftAt
      called == CalledAt
      returned == ReturnedAt
      invocation == Invocations
  IN /\ Computed(joined) /\ Computed(left) /\ Computed(called) /\ Computed(returned)
     /\ \A k \in Subscribers :
          LET during == {e \in Events : called[e] < joined[k] /\ joined[k] < returned[e]}
          IN during # {} =>
               /\ \A i \in invocation : trace[i].sub = k => trace[i].seq \notin during
               /\ \A m \in Events :
                    (joined[k] < called[m] /\ returned[m] < left[k] /\ Matches(k, m)) =>
                      Cardinality({i \in invocation :
                                     trace[i].sub = k /\ trace[i].seq = m}) = 1

\* a subscription created by a listener during the delivery of an event: it
\* was not invoked for that event, and was invoked for the event the
\* listener published next, inside the same delivery
C18_Witness ==
  \E k \in Subscribers, m, n \in Events :
    /\ SubscribedDuring(k, m) /\ Matches(k, m)
    /\ InvokedAt(k, m) = {}
    /\ SendAt(m) < SendAt(n) /\ SendEndAt(n) < SendEndAt(m)
    /\ InSnapshot(k, n)
    /\ Cardinality(InvokedAt(k, n)) = 1

\* C19: whenever a listener is invoked for an event, its subscription was
\* made before send was called for that event and was not unsubscribed, by
\* the application or by a listener during a delivery, before that call: an
\* unsubscribed id is invoked again only through a later subscription.
C19_UnsubscribeImmediate ==
  LET joined == JoinedAt
      left == LeftAt
      called == CalledAt
  IN /\ Computed(joined) /\ Computed(left) /\ Computed(called)
     /\ \A i \in Invocations :
          /\ joined[trace[i].sub] < called[trace[i].seq]
          /\ called[trace[i].seq] < left[trace[i].sub]
          /\ trace[i].id = subscribers[trace[i].sub].id

\* a subscription a listener unsubscribed during a delivery: the event the
\* listener published next, inside the same delivery, matched it and did
\* not reach it
C19_Witness ==
  \E k \in Subscribers, m, n \in Events :
    /\ UnsubscribedDuring(k, m)
    /\ UnsubscribedAt(k) < SendAt(n) /\ SendEndAt(n) < SendEndAt(m)
    /\ Matches(k, n)
    /\ InvokedAt(k, n) = {}

\* C20: an unsubscribe call for an id that is not subscribed changes nothing
\* of the bus; an unsubscribe call for a subscribed id removes that id and
\* closes its subscriber; in both cases the other subscriptions, their
\* subscribers and order, and the history stay as they are, and no listener
\* is invoked.
C20_UnsubscribeIdempotent ==
  [][\A id \in {<<"u", 1>>, UnknownId} :
       Unsubscribe(id) =>
         /\ id \notin ActiveIds'
         /\ subscriptions' = SelectSeq(subscriptions, LAMBDA e : e.id # id)
         /\ \A k \in Subscribers : subscribers[k].id # id => subscribers'[k] = subscribers[k]
         /\ Len(subscribers') = Len(subscribers)
         /\ \A k \in Range(observers) :
              subscribers[k].id # id => k \in Range(observers')
         /\ eventHistory' = eventHistory
         /\ invocations' = invocations
         /\ id \notin ActiveIds =>
              UNCHANGED <<subscriptions, observers, subscribers, eventHistory,
                          maxHistorySize, apis, executions, calls, sent,
                          invocations, trace>>]_vars

\* an unsubscribe call for an id that had been unsubscribed before was
\* ignored, with another subscription in place and an event in the history
C20_Witness ==
  /\ \E c \in Range(ignored) :
       \E u \in 1..c.at : trace[u].kind = "unsubscribe" /\ trace[u].id = c.id
  /\ subscriptions # <<>>
  /\ eventHistory # <<>>

(***************************************************************************)
(* unsubscribeAll.                                                         *)
(***************************************************************************)
\* the step is an unsubscribeAll call of the application: subscribers left,
\* and the application neither published nor subscribed
IsUnsubscribeAll ==
  /\ Len(trace') > Len(trace)
  /\ publishes' = publishes
  /\ subscribeCalls' = subscribeCalls
  /\ \A i \in DOMAIN trace' : i > Len(trace) => trace'[i].kind = "unsubscribe"

\* the step is a subscribe call of the application
IsSubscribe == Len(subscribeCalls') = Len(subscribeCalls) + 1
SubscribeCall == subscribeCalls'[Len(subscribeCalls')]

\* the subscribers an unsubscribe entry of the trace names
Removed == {trace[i].sub : i \in {j \in DOMAIN trace : trace[j].kind = "unsubscribe"}}

\* C21: an unsubscribeAll call leaves no active subscription and closes
\* every subscriber the map held, changing neither the history nor the events
\* sent; no later publish invokes a listener that was removed; and a subscribe
\* call with an id that is not active, a removed one included, makes that id
\* active with a new subscriber.
C21_UnsubscribeAllRemovesAll ==
  [][/\ IsUnsubscribeAll =>
          /\ getActiveSubscriptions(State') = <<>>
          /\ observers' = <<>>
          /\ \A i \in DOMAIN subscriptions : subscribers'[subscriptions[i].sub].closed
          /\ eventHistory' = eventHistory
          /\ sent' = sent
          /\ invocations' = invocations
     /\ IsPublish =>
          \A k \in Removed : invocations'[k] = invocations[k]
     /\ (IsSubscribe /\ SubscribeCall.id \notin ActiveIds) =>
          /\ SubscribeCall.id \in ActiveIds'
          /\ Len(subscribers') = Len(subscribers) + 1
          /\ ~subscribers'[Len(subscribers')].closed]_vars

\* a listener was invoked for an event, unsubscribeAll removed it while the
\* event stayed in the history, a matching event published afterwards did
\* not reach it, and its id was subscribed again
C21_Witness ==
  /\ Len(subscribers) = 2
  /\ subscribers[1].id = subscribers[2].id
  /\ subscribers[1].closed /\ ~subscribers[2].closed
  /\ subscribers[1].id \in ActiveIds
  /\ Len(sent) = 2
  /\ matchesTopic(subscribers[1].topic, sent[1].event.topic)
  /\ matchesTopic(subscribers[1].topic, sent[2].event.topic)
  /\ invocations[1] = 1
  /\ Len(eventHistory) = 2
  /\ \E i, j, l \in DOMAIN trace :
       /\ i < j /\ j < l
       /\ trace[i].kind = "unsubscribe" /\ trace[i].sub = 1
       /\ trace[j].kind = "send" /\ trace[j].seq = 2
       /\ trace[l].kind = "subscribe" /\ trace[l].sub = 2

(***************************************************************************)
(* Listeners that throw.                                                   *)
(***************************************************************************)
\* the invocations of listeners that throw
Throws(i) ==
  /\ trace[i].kind = "invoke"
  /\ subscribers[trace[i].sub].listener = appListener("throw")

\* C22: when a listener that throws was invoked for an event, every
\* subscriber registered after it that was subscribed when the event was
\* published and whose pattern matches the event's topic is invoked for that
\* event, after the throw and before the send call returns.
C22_ThrowDoesNotStopDelivery ==
  LET joined == JoinedAt
      left == LeftAt
      called == CalledAt
      returned == ReturnedAt
  IN /\ Computed(joined) /\ Computed(left) /\ Computed(called) /\ Computed(returned)
     /\ \A i \in Invocations :
          Throws(i) =>
            \A k \in Subscribers :
              (/\ k > trace[i].sub
               /\ joined[k] < called[trace[i].seq]
               /\ called[trace[i].seq] < left[k]
               /\ Matches(k, trace[i].seq)) =>
                \E j \in Invocations :
                  /\ i < j /\ j < returned[trace[i].seq]
                  /\ trace[j].sub = k /\ trace[j].seq = trace[i].seq

\* a listener on A.* that throws and a listener on A.B registered after it
\* were both invoked for one event on A.B, the throwing one first
C22_Witness ==
  /\ Len(subscribers) = 2
  /\ subscribers[1].listener = appListener("throw")
  /\ subscribers[2].listener = appListener("noop")
  /\ \E i, j \in Invocations :
       /\ i < j
       /\ trace[i].sub = 1 /\ trace[j].sub = 2
       /\ trace[i].seq = trace[j].seq
       /\ trace[i].topic = TopicAB

\* the events for which a listener that throws was invoked
Faulted == {trace[i].seq : i \in {j \in Invocations : Throws(j)}}

\* C23: every send call returns to its caller, also when a listener it
\* invoked threw: the trace holds the return of each send call after the
\* invocations made for its event, and the event is in the history.
C23_ThrowDoesNotReachPublisher ==
  \A m \in Events :
    /\ \E i \in DOMAIN trace :
         /\ trace[i].kind = "sendEnd" /\ trace[i].seq = m
         /\ \A j \in InvocationsOf(m) : j < i
    /\ m \in Faulted =>
         \E h \in DOMAIN eventHistory : eventHistory[h] = sent[m].event

\* two events were published to a listener that throws; both send calls
\* returned and both events are in the history
C23_Witness ==
  /\ Faulted = {1, 2}
  /\ publishes = 2
  /\ Len(eventHistory) = 2
  /\ trace[Len(trace)] = [kind |-> "sendEnd", seq |-> 2]

(***************************************************************************)
(* The history.                                                            *)
(***************************************************************************)
\* C24: when the bus has published five events more than its history limit
\* N, the history holds N events: the N last published, in publish order.
C24_HistoryKeepsNewest ==
  publishes = maxHistorySize + 5 =>
    /\ Len(eventHistory) = maxHistorySize
    /\ \A i \in DOMAIN eventHistory : eventHistory[i] = sent[i + 5].event

\* eight events were published with a limit of HistoryLimit: the history
\* starts at the sixth
C24_Witness ==
  /\ options = historyOption(HistoryLimit)
  /\ publishes = HistoryLimit + 5
  /\ Len(eventHistory) = HistoryLimit
  /\ eventHistory[1].seq = 6
  /\ eventHistory[HistoryLimit].seq = publishes
  /\ \E i, j \in DOMAIN eventHistory : eventHistory[i].topic # eventHistory[j].topic

\* C25: the history never holds more events than the maxHistorySize given
\* to the constructor, whatever was given, 0 included; with none given it
\* never holds more than 100.
C25_HistoryWithinConfigured ==
  /\ options.given => Len(eventHistory) <= options.maxHistorySize
  /\ ~options.given =>
       /\ maxHistorySize = DefaultMaxHistorySize
       /\ Len(eventHistory) <= DefaultMaxHistorySize

\* the result the claim gives a getHistory call
Retained(args) ==
  IF args = <<>> THEN eventHistory
  ELSE SelectSeq(eventHistory, LAMBDA event : event.topic = args[1])

\* C26: getHistory() returns the history as it is, and getHistory(t) the
\* events of the history whose topic is t, in the order of the history, for
\* every string t.
C26_GetHistoryFilters ==
  [][queried' # queried =>
       /\ queried'.result = Retained(queried'.args)
       /\ eventHistory' = eventHistory]_vars

\* the invocations a step adds to the trace
NewInvokes == {i \in DOMAIN trace' : i > Len(trace) /\ trace'[i].kind = "invoke"}

\* C27: a subscribe call invokes no listener, whatever the history holds:
\* the new subscriber starts with no invocation and the history stays as it
\* is; and every invocation a publish makes is for an event published in
\* that call, never for one the history held before.
C27_NoReplay ==
  [][/\ IsSubscribe =>
          /\ NewInvokes = {}
          /\ \A k \in DOMAIN invocations' :
               invocations'[k] = IF k \in DOMAIN invocations THEN invocations[k] ELSE 0
          /\ eventHistory' = eventHistory
     /\ IsPublish =>
          \A i \in NewInvokes :
            /\ trace'[i].seq > Len(sent)
            /\ \A h \in DOMAIN eventHistory : eventHistory[h].seq # trace'[i].seq]_vars

\* an event on A.B was in the history when a subscription matching it was
\* registered; its listener was invoked for the next event on A.B only
C27_Witness ==
  /\ Len(subscribers) = 1
  /\ Len(sent) = 2
  /\ sent[1].event.topic = TopicAB /\ sent[2].event.topic = TopicAB
  /\ Len(eventHistory) = 2
  /\ subscribeCalls[1].at = 1
  /\ invocations[1] = 1
  /\ \E i \in Invocations : trace[i].sub = 1 /\ trace[i].seq = 2
  /\ \E i, j \in DOMAIN trace :
       /\ i < j
       /\ trace[i] = [kind |-> "sendEnd", seq |-> 1]
       /\ trace[j].kind = "subscribe" /\ trace[j].sub = 1

(***************************************************************************)
(* Request and reply.                                                      *)
(***************************************************************************)
Requests == DOMAIN handles

\* the values given to a reply channel, as positions of its attempts
ValuesOf(h) == {i \in DOMAIN h.attempts : h.attempts[i].kind = "next"}
\* the position of the first completion among the attempts, 0 when none
StopOf(h) ==
  IF \E i \in DOMAIN h.attempts : h.attempts[i].kind = "complete"
    THEN CHOOSE i \in DOMAIN h.attempts :
           /\ h.attempts[i].kind = "complete"
           /\ \A j \in 1..(i - 1) : h.attempts[j].kind # "complete"
    ELSE 0
\* the values a completed channel hands over: the last one given before its
\* first completion, none when none was given
OutcomeOf(h) ==
  LET before == {i \in ValuesOf(h) : i < StopOf(h)}
  IN IF before = {} THEN <<>>
     ELSE <<h.attempts[CHOOSE i \in before : \A j \in before : j <= i].value>>

\* C28 as stated: the requester receives at most one value, and that is the
\* first value given to the channel, the first attempt made on it: what is
\* given later changes nothing.
C28_FirstAttemptWins ==
  \A r \in Requests :
    LET h == handles[r]
    IN /\ Len(h.received) <= 1
       /\ h.received # <<>> =>
            /\ h.attempts[1].kind = "next"
            /\ h.received[1] = h.attempts[1].value

\* C28, amended: the channel completes once, at the first complete call, and
\* the requester receives at most one value and one completion: the last
\* value given before that completion, once it has subscribed.  The next and
\* complete calls made after the completion, by any listener, change nothing.
C28_CompletionFinal ==
  \A r \in Requests :
    LET h == handles[r]
        resolved == h.subscribed /\ StopOf(h) # 0
    IN /\ Len(h.received) <= 1
       /\ replySubjects[r].isStopped = (StopOf(h) # 0)
       /\ h.completed = resolved
       /\ h.received = IF resolved THEN OutcomeOf(h) ELSE <<>>

\* a listener replied r1 and completed in the call stack of the request;
\* another one, which had kept the channel, gave it r3 afterwards; the
\* requester, who subscribed after the completion, has received r1
C28_Witness ==
  \E r \in Requests :
    /\ handles[r].attempts = <<[kind |-> "next", value |-> "r1"],
                               [kind |-> "complete", value |-> Undefined],
                               [kind |-> "next", value |-> "r3"]>>
    /\ handles[r].late
    /\ handles[r].received = <<"r1">>
    /\ handles[r].completed

\* C29 as stated: once a listener has given the channel its one value v, the
\* requester subscribed to the handle has received v.
C29_ValueResolves ==
  \A r \in Requests :
    LET h == handles[r]
    IN (/\ h.subscribed
        /\ Cardinality(ValuesOf(h)) = 1
        /\ h.attempts[1].kind = "next") =>
          h.received = <<h.attempts[1].value>>

\* C29, amended: the handle resolves when the channel is completed, with the
\* last value given to it before: a requester that is subscribed receives
\* the value and the completion in the step that completes the channel, one
\* that subscribes to a completed channel receives them in that step, and
\* while the channel is not completed the requester has received nothing.
C29_CompletionResolves ==
  [][\A r \in DOMAIN handles' :
       LET was == r \in DOMAIN handles
           h == handles'[r]
           completes == StopOf(h) # 0 /\ (was => StopOf(handles[r]) = 0)
           subscribes == h.subscribed /\ (was => ~handles[r].subscribed)
       IN /\ (completes /\ was /\ handles[r].subscribed) =>
               h.completed /\ h.received = OutcomeOf(h)
          /\ (subscribes /\ StopOf(h) # 0) =>
               h.completed /\ h.received = OutcomeOf(h)
          /\ StopOf(h) = 0 => ~h.completed /\ h.received = <<>>]_vars

\* the requester had subscribed to the handle before the completion; the
\* listener that kept the channel gave it r2 and then completed it, and the
\* requester has received r2 and the completion
C29_Witness ==
  \E r \in Requests :
    /\ handles[r].kept
    /\ handles[r].subscribed /\ ~handles[r].late
    /\ handles[r].attempts = <<[kind |-> "next", value |-> "r2"],
                               [kind |-> "complete", value |-> Undefined]>>
    /\ handles[r].received = <<"r2">>
    /\ handles[r].completed

\* the listener invocations that were handed the reply channel of request r
InvocationsFor(r) == {i \in Invocations : trace[i].data.replySub = r}

\* C30: while no listener has called next or complete on the reply channel
\* of a request, the channel is open and its requester has received neither
\* a value nor a completion, whatever else happened on the bus.
C30_UnansweredStaysOpen ==
  \A r \in Requests :
    handles[r].attempts = <<>> =>
      /\ ~replySubjects[r].isStopped
      /\ ~handles[r].completed
      /\ handles[r].received = <<>>

\* a request on A.C while the two listeners are subscribed on A.B: no
\* listener was handed the channel, and the requester, subscribed to the
\* handle, has received nothing
C30_Witness ==
  \E r \in Requests :
    /\ Len(subscriptions) = 2
    /\ \E m \in Events : sent[m].event.data.replySub = r /\ sent[m].event.topic = TopicAC
    /\ InvocationsFor(r) = {}
    /\ handles[r].subscribed /\ handles[r].attempts = <<>>
    /\ handles[r].received = <<>> /\ ~handles[r].completed

(***************************************************************************)
(* What the listeners are handed.                                          *)
(***************************************************************************)
\* C31: the topic and the data every listener was handed are the topic and
\* the data the publisher passed to send, and so is every entry of the
\* history.
C31_EventImmutable ==
  /\ \A i \in Invocations :
       /\ trace[i].topic = sent[trace[i].seq].event.topic
       /\ trace[i].data = sent[trace[i].seq].event.data
  /\ \A h \in DOMAIN eventHistory :
       eventHistory[h] = sent[eventHistory[h].seq].event

\* what a step adds to the trace
NewEntries == {i \in DOMAIN trace' : i > Len(trace)}

\* C32: a publish stores its event in the history before it hands it to any
\* listener, whether a subscription matches or not: after the call the
\* event is the newest entry of the history, also when no listener was
\* invoked, and every getHistory call a listener made while it was handed
\* the event returned a history whose newest entry is that event.
C32_StoredBeforeDelivery ==
  [][IsPublish =>
       /\ eventHistory' # <<>>
       /\ eventHistory'[Len(eventHistory')] = PublishedEvent
       /\ \A i \in NewEntries :
            trace'[i].kind = "getHistory" =>
              /\ trace'[i].result # <<>>
              /\ trace'[i].result[Len(trace'[i].result)] = sent'[trace'[i].seq].event]_vars

\* the first event, on A.C, reached no listener and is in the history; the
\* listener handed the second event read a history of both
C32_Witness ==
  /\ Len(sent) = 2
  /\ InvocationsOf(1) = {}
  /\ eventHistory = <<sent[1].event, sent[2].event>>
  /\ \E i \in DOMAIN trace :
       /\ trace[i].kind = "getHistory"
       /\ trace[i].seq = 2
       /\ trace[i].result = <<sent[1].event, sent[2].event>>

\* C34: every listener invocation was handed the id, the closure and the
\* customData its subscription was registered with, the topic of the event
\* as it was published, and the published data.
C34_ListenerArguments ==
  \A i \in Invocations :
    LET registered == subscribers[trace[i].sub]
        published == sent[trace[i].seq].event
    IN /\ trace[i].id = registered.id
       /\ trace[i].closure = registered.closure
       /\ trace[i].customData = registered.customData
       /\ trace[i].topic = published.topic
       /\ trace[i].data = published.data
       /\ \E c \in DOMAIN subscribeCalls :
            /\ subscribeCalls[c].id = trace[i].id
            /\ subscribeCalls[c].closure = trace[i].closure
            /\ subscribeCalls[c].customData = trace[i].customData

\* one event on A.B was handed to a subscription on A.*, registered with the
\* closure c1, and to a subscription on A.B, registered with c2 and k2: each
\* listener got its own id and values, and the topic A.B
C34_Witness ==
  \E i, j \in Invocations :
    /\ trace[i].seq = trace[j].seq
    /\ subscribers[trace[i].sub].topic = PatternAStar
    /\ subscribers[trace[j].sub].topic = TopicAB
    /\ trace[i].topic = TopicAB /\ trace[j].topic = TopicAB
    /\ trace[i].id # trace[j].id
    /\ trace[i].closure = "c1" /\ trace[i].customData = Undefined
    /\ trace[j].closure = "c2" /\ trace[j].customData = "k2"

\* the requests answered while the request call ran: a listener gave the
\* channel a value and completed it before request returned
AnsweredInCall == {r \in Requests :
                     /\ StopOf(handles[r]) \in 1..handles[r].sync
                     /\ OutcomeOf(handles[r]) # <<>>}

\* C33: the value of a request that was answered while the request call ran
\* is handed to the requester when it subscribes to the handle, once, and
\* nothing else is: from then on what the requester has received is that
\* one value and the completion.
C33_ReplyInCallKept ==
  \A r \in AnsweredInCall :
    IF handles[r].subscribed
      THEN /\ handles[r].received = OutcomeOf(handles[r])
           /\ Len(handles[r].received) = 1
           /\ handles[r].completed /\ handles[r].late
      ELSE handles[r].received = <<>> /\ ~handles[r].completed

\* the listener answered r1 and completed within the request call; the
\* requester subscribed afterwards and has received r1
C33_Witness ==
  \E r \in Requests :
    /\ handles[r].sync = 2
    /\ handles[r].attempts[1] = [kind |-> "next", value |-> "r1"]
    /\ handles[r].attempts[2].kind = "complete"
    /\ handles[r].subscribed /\ handles[r].late
    /\ handles[r].received = <<"r1">>

\* the subscribers whose listener threw and whose subscription is in the map
FaultedActive ==
  {k \in DOMAIN subscribers :
     /\ \E i \in Invocations : Throws(i) /\ trace[i].sub = k
     /\ getSubscription(State, subscribers[k].id) = k}

\* C39: a subscription whose listener threw stays registered until it is
\* removed by a call: every step other than an unsubscribeAll leaves its
\* id among the active subscriptions and its subscriber open, and every
\* publish on a topic its pattern matches invokes its listener once more,
\* however often it threw before.
C39_ThrowerStaysRegistered ==
  [][\A k \in FaultedActive :
       /\ ~IsUnsubscribeAll =>
            /\ subscribers[k].id \in {subscriptions'[i].id : i \in DOMAIN subscriptions'}
            /\ getSubscription(State', subscribers[k].id) = k
            /\ ~subscribers'[k].closed
       /\ (IsPublish /\ matchesTopic(subscribers[k].topic, PublishedEvent.topic)) =>
            invocations'[k] = invocations[k] + 1]_vars

\* the listener of a subscription on A.* threw for two events and its id is
\* active
C39_Witness ==
  \E k \in FaultedActive :
    /\ invocations[k] = 2
    /\ \A i \in Invocations : trace[i].sub = k => Throws(i)
    /\ subscribers[k].id \in ActiveIds
    /\ subscribers[k].id \in {getActiveSubscriptions(State)[i] :
                                 i \in DOMAIN getActiveSubscriptions(State)}

\* the ids of a sequence of subscribers
IdsOf(s, subs) == [i \in DOMAIN subs |-> s.subscribers[subs[i]].id]
NoDuplicates(seq) == \A i, j \in DOMAIN seq : seq[i] = seq[j] => i = j
Increasing(seq) == \A i, j \in DOMAIN seq : i < j => seq[i] < seq[j]

\* C36: the ids getActiveSubscriptions returns are the ids of the
\* subscribers that listen to the Subject, in the order in which those were
\* registered and without duplicates, between the calls and at every send
\* call, one made by a listener included; and the listeners invoked for an
\* event are listeners of ids that were active at its send call, each
\* matching one that stays subscribed during the call being invoked once.
C36_ActiveAreInvoked ==
  LET left == LeftAt
      returned == ReturnedAt
  IN /\ Computed(left) /\ Computed(returned)
     /\ getActiveSubscriptions(State) = IdsOf(State, listening(State))
     /\ NoDuplicates(getActiveSubscriptions(State))
     /\ Increasing(listening(State))
     /\ \A m \in Events :
          /\ sent[m].active = IdsOf(State, sent[m].listening)
          /\ NoDuplicates(sent[m].active)
          /\ Increasing(sent[m].listening)
          /\ \A i \in InvocationsOf(m) :
               /\ trace[i].sub \in Range(sent[m].listening)
               /\ trace[i].id \in Range(sent[m].active)
          /\ \A k \in Range(sent[m].listening) :
               (matchesTopic(subscribers[k].topic, sent[m].event.topic)
                  /\ left[k] > returned[m]) =>
                 Cardinality(InvokedAt(k, m)) = 1

\* the listener of u1, handed the first event, subscribed u2 and published:
\* at that send call both ids were active and both listeners were invoked;
\* u1 was then unsubscribed and subscribed again, so that u2 is listed first
C36_Witness ==
  /\ Len(sent) >= 2
  /\ SendAt(1) < SendAt(2) /\ SendAt(2) < SendEndAt(1)
  /\ sent[1].active = <<(<<"u", 1>>)>>
  /\ sent[2].active = <<(<<"u", 1>>), OtherId>>
  /\ Cardinality(InvocationsOf(2)) = 2
  /\ getActiveSubscriptions(State) = <<OtherId, (<<"u", 1>>)>>

\* the step is a destroy call; the bus was destroyed
IsDestroy ==
  Cardinality({i \in DOMAIN trace' : trace'[i].kind = "destroy"})
    = Cardinality({i \in DOMAIN trace : trace[i].kind = "destroy"}) + 1
Destroyed == \E i \in DOMAIN trace : trace[i].kind = "destroy"

\* C38: a destroy call returns with no active subscription and an empty
\* history, and once the bus was destroyed no step invokes a listener: not
\* a publish, and not for a subscription registered after the destroy.
C38_DestroyedIsSilent ==
  [][/\ IsDestroy =>
          /\ getActiveSubscriptions(State') = <<>>
          /\ getHistory(State', <<>>) = <<>>
     /\ Destroyed =>
          /\ invocations' = [k \in DOMAIN subscribers' |->
                                IF k \in DOMAIN subscribers THEN invocations[k] ELSE 0]
          /\ \A i \in NewEntries : trace'[i].kind # "invoke"]_vars

\* a subscription on A.B was handed an event; after destroy a new
\* subscription on A.B was registered and an event published on A.B, which
\* is in the history and was handed to no listener
C38_Witness ==
  /\ Destroyed
  /\ Len(subscribers) = 2 /\ Len(sent) = 2
  /\ subscribers[1].topic = TopicAB /\ subscribers[2].topic = TopicAB
  /\ invocations = <<1, 0>>
  /\ \E d \in DOMAIN trace :
       /\ trace[d].kind = "destroy"
       /\ SendEndAt(1) < d /\ d < SubscribedAt(2) /\ SubscribedAt(2) < SendAt(2)
  /\ InvocationsOf(2) = {}
  /\ getActiveSubscriptions(State) = <<subscribers[2].id>>
  /\ eventHistory = <<sent[2].event>>

\* the ids the execute calls of the hook registered
HookIds == {executions[e].registrationId :
              e \in {x \in Executions : executions[x].api = 0}}

\* C35: once the component has unmounted, none of the ids the execute
\* calls of its useWorkflow hook registered is an active subscription.
C35_UnmountCleansUp ==
  ~hook.mounted => HookIds \cap ActiveIds = {}

\* the executions whose registration id is subscribed
ActiveExecutions == {e \in Executions : executions[e].registrationId \in ActiveIds}

\* no instance has started more than one execution
DistinctInstances(xs) ==
  \A e, f \in DOMAIN xs : e # f => xs[e].api # xs[f].api

\* C37: a state change carries no registration id and reaches every
\* subscribed execution of its workflow.  While the executions are started
\* from distinct instances, a success published on WF.W.STATE.CHANGE invokes
\* the success callback of each active execution of W once, in the order in
\* which the executions were started, and no execution whose callback
\* returned is subscribed afterwards.
C37_SuccessReachesAll ==
  [][(/\ IsPublish
      /\ PublishedEvent.topic = StateChangeW
      /\ PublishedEvent.data.value = "success"
      /\ PublishedEvent.data.header.registrationId = NullId
      /\ DistinctInstances(executions')) =>
       /\ \A e \in ActiveExecutions :
            /\ CountCalls(e, "success")' = CountCalls(e, "success") + 1
            /\ Len(calls'[e]) = Len(calls[e]) + 1
            /\ executions[e].onSuccess # "throw" =>
                 executions[e].registrationId \notin
                   {subscriptions'[i].id : i \in DOMAIN subscriptions'}
       /\ \A e, f \in ActiveExecutions :
            e < f =>
              \E i, j \in NewEntries :
                /\ i < j
                /\ trace'[i].kind = "invoke" /\ trace'[i].sub = subscriberOf(e)
                /\ trace'[j].kind = "invoke" /\ trace'[j].sub = subscriberOf(f)]_vars

\* two instances of W each started an execution; one success event invoked
\* the success callback of the first and then that of the second, and
\* neither registration id is subscribed
C37_Witness ==
  /\ Len(executions) = 2
  /\ executions[1].api # executions[2].api
  /\ calls[1] # <<>> /\ calls[2] # <<>>
  /\ CountCalls(1, "success") = 1 /\ CountCalls(2, "success") = 1
  /\ \E i, j \in Invocations :
       /\ i < j
       /\ trace[i].seq = trace[j].seq
       /\ trace[i].sub = subscriberOf(1) /\ trace[j].sub = subscriberOf(2)
       /\ sent[trace[i].seq].event.data.value = "success"
  /\ ActiveIds = {}

\* the callback kind of a state value under a configuration, the success
\* set tested first
KindOf(config, value) ==
  IF value \in successStatesOf(config) THEN "success"
  ELSE IF value \in errorStatesOf(config) THEN "error"
  ELSE "progress"

\* C40 as stated: a state change handed to the listener of an execution
\* invokes exactly one callback of that execution, the success callback
\* when the value is in the success set, whether or not it is in the error
\* set too.
C40_ExactlyOneCallback ==
  [][IsPublish =>
       \A e \in Executions :
         Delivered(e) =>
           /\ Len(calls'[e]) = Len(calls[e]) + 1
           /\ LastCall(e).kind = KindOf(executions[e].config, PublishedEvent.data.value)]_vars

\* C40: a state change handed to the listener of an execution selects one
\* callback kind, success when the value is in the success set, whether or
\* not it is in the error set too: the callback of that kind is invoked
\* once when it was given to execute, and no other callback is invoked.
C40_SuccessPrecedence ==
  [][IsPublish =>
       \A e \in Executions :
         Delivered(e) =>
           LET kind == KindOf(executions[e].config, PublishedEvent.data.value)
           IN IF CallbackFor(e, kind) = "absent"
                THEN calls'[e] = calls[e]
                ELSE /\ Len(calls'[e]) = Len(calls[e]) + 1
                     /\ SubSeq(calls'[e], 1, Len(calls[e])) = calls[e]
                     /\ LastCall(e).kind = kind]_vars

\* error is in the success set and in the error set of two executions that
\* were handed an error: the one given all callbacks had its success
\* callback invoked and nothing else, the one given the error callback only
\* had none invoked
C40_Witness ==
  /\ Len(executions) = 2
  /\ \A e \in Executions :
       /\ executions[e].config = OverlapConfig
       /\ "error" \in executions[e].successStates \cap executions[e].errorStates
       /\ \E i \in Invocations :
            trace[i].sub = subscriberOf(e) /\ trace[i].data.value = "error"
       /\ invocations[subscriberOf(e)] = 1
  /\ executions[1].onSuccess = "noop" /\ executions[2].onSuccess = "absent"
  /\ Len(calls[1]) = 1 /\ calls[1][1].kind = "success"
  /\ calls[2] = <<>>
====
